---- MODULE Spec2Model ----
(***************************************************************************)
(* Intrusive red-black tree with multi-valued keys (exotic::rbtreeNodeBase) *)
(* modelled at the level of the node record: a flags word and the three    *)
(* pointer fields that the union type.{sentinel,single,mulext,mulint}      *)
(* overlays.  A pointer to a field is a pair <<node, i>>.                  *)
(* Dereferencing a null pointer is recorded as a fault (the process dies). *)
(***************************************************************************)
EXTENDS Integers, Sequences, FiniteSets, TLC

\* ---------------------------------------------------------------- bounds
MaxKey == 6        \* keys are 1..MaxKey; node k carries key k
MaxDup == 2        \* further nodes that carry the key DupKey
CoreKeys == 4      \* the keys used together with duplicates are 1..CoreKeys
MaxOps == 20       \* the longest run of calls over pairwise distinct keys
MaxPathOps == 10   \* the longest run of calls that records the branches taken
MaxMoveOps == 7    \* the longest run of calls that move values between nodes
DupKey == (CoreKeys + 1) \div 2     \* the key that is inserted several times

\* ------------------------------------------------------- flags (rbtreeFlag)
rbfOrphan == 0
rbfSingle == 1
rbfMulext == 2
rbfMulint == 3
rbfTypeMask == 3
rbfMulintFront == 4
rbfMulintBack == 8
rbfMulintFrontBack == 12
rbfColorRed == 0
rbfColorBlack == 4
rbfColorMask == 4

\* ------------------------------------------------------------------ nodes
NULL == 0
Nodes == 1 .. (MaxKey + MaxDup)          \* caller-owned nodes
SENT == MaxKey + MaxDup + 1              \* the container's sentinel node
PTS == MaxKey + MaxDup + 2               \* extswap: pseudoTreeSentinel (local)
PTR == MaxKey + MaxDup + 3               \* extswap: pseudoTreeRoot (local)
TMP == MaxKey + MaxDup + 4               \* swap: the local orphan node c
Cells == 0 .. (MaxKey + MaxDup + 4)      \* cell 0 stands for the null address
Fuel == MaxKey + MaxDup + 5              \* more steps than there are cells

\* the key stored in the object that embeds node n (the container's business)
KeyOf(n) == IF n <= MaxKey THEN n ELSE DupKey

\* field offsets inside the union: every variant has three pointers
\*   sentinel {_1, root, _2}  single {parent, left, right}
\*   mulext {parent, back, front}  mulint {mulext, previous, next}
fParent == 1
fLeft == 2
fRight == 3
fRoot == 2
fMulext == 1
fPrevious == 2
fNext == 3
fBack == 2
fFront == 3

\* the "eye candy" local nilParent of extswap: writes to it are dropped
NoRef == <<0 - 1, 1>>

\* rbtreeNodeBase(): flags(rbfOrphan), all three pointers null
EmptyCell == [fl |-> rbfOrphan, p |-> <<NULL, NULL, NULL>>]

\* ---------------------------------------------------- bit manipulation
TypeOf(fl) == fl % 4                         \* flags & rbfTypeMask
HasBit4(fl) == (fl \div 4) % 2 = 1           \* (flags & 4) != 0
HasBit8(fl) == (fl \div 8) % 2 = 1           \* (flags & 8) != 0
ClearType(fl) == fl - (fl % 4)               \* (flags | rbfTypeMask) ^ rbfTypeMask
Xor4(fl) == IF HasBit4(fl) THEN fl - 4 ELSE fl + 4
Or4(fl) == IF HasBit4(fl) THEN fl ELSE fl + 4
Or8(fl) == IF HasBit8(fl) THEN fl ELSE fl + 8

\* ------------------------------------------ memory: s = [h, fault]
Crash(s) == [s EXCEPT !.fault = TRUE]
Chk(s, n) == IF n = NULL THEN Crash(s) ELSE s
Flags(s, n) == s.h[n].fl
Get(s, r) == s.h[r[1]].p[r[2]]
Put(s, r, v) ==
  IF r = NoRef THEN s
  ELSE IF r[1] = NULL THEN Crash(s)
  ELSE [s EXCEPT !.h[r[1]].p[r[2]] = v]
SetFlags(s, n, f) ==
  IF n = NULL THEN Crash(s) ELSE [s EXCEPT !.h[n].fl = f]
ResetNode(s, n) == [s EXCEPT !.h[n] = EmptyCell]

\* *dst = *src
Copy(s, dst, src) == Put(s, dst, Get(s, src))
\* (*ptr) -> field = v
PutAt(s, ptr, field, v) == Put(s, <<Get(s, ptr), field>>, v)
\* (*ptr) -> field = *src
CopyAt(s, ptr, field, src) == Put(s, <<Get(s, ptr), field>>, Get(s, src))
\* n -> flags = ((from -> flags | rbfTypeMask) ^ rbfTypeMask) | ty
Retag(s, n, from, ty) == SetFlags(s, n, ClearType(Flags(s, from)) + ty)
\* flags = flags | rbfMulintFront, flags = flags | rbfMulintBack
SetBit4(s, n) == SetFlags(s, n, Or4(Flags(s, n)))
SetBit8(s, n) == SetFlags(s, n, Or8(Flags(s, n)))

\* ------------------------------------------------ accessors (rbtree.hpp)
extleft(s, n) ==
  IF TypeOf(Flags(s, n)) = rbfMulext THEN <<Get(s, <<n, fFront>>), fPrevious>>
  ELSE <<n, fLeft>>

extright(s, n) ==
  IF TypeOf(Flags(s, n)) = rbfMulext THEN <<Get(s, <<n, fBack>>), fNext>>
  ELSE <<n, fRight>>

extparent(n) == <<n, fParent>>

\* extfetchLinks(node, parent, outer, inner, chirality): the three field
\* references, as a record
extfetchLinks(s, n, chirality) ==
  LET left == extleft(s, n)
      right == extright(s, n)
  IN [parent |-> extparent(n),
      outer |-> IF chirality THEN right ELSE left,
      inner |-> IF chirality THEN left ELSE right]

\* extreferred(): the field of the parent that holds n.  The rbfMulext case
\* compares and returns fields of the queue FRONT only, as the source does.
extreferred(s, n) ==
  LET parentNode == Get(s, extparent(n))
      pty == TypeOf(Flags(s, parentNode))
      front == Get(s, <<parentNode, fFront>>)
  IN IF pty = rbfMulext
       THEN (IF Get(s, <<front, fPrevious>>) = n
               THEN <<front, fPrevious>> ELSE <<front, fNext>>)
     ELSE IF pty = rbfSingle
       THEN (IF Get(s, <<parentNode, fLeft>>) = n
               THEN <<parentNode, fLeft>> ELSE <<parentNode, fRight>>)
     ELSE <<parentNode, fRoot>>

\* isRoot(): the parent is tagged rbfOrphan (it is the sentinel)
isRoot(s, n) ==
  LET ty == TypeOf(Flags(s, n))
  IN IF ty = rbfSingle \/ ty = rbfMulext
       THEN TypeOf(Flags(s, Get(s, <<n, fParent>>))) = rbfOrphan
       ELSE FALSE

\* isRoot() reads the flags of the parent: a null parent is a fault
isRootChk(s, n) ==
  LET ty == TypeOf(Flags(s, n))
  IN IF ty = rbfSingle \/ ty = rbfMulext THEN Chk(s, Get(s, <<n, fParent>>)) ELSE s

red(s, n) == IF n = NULL THEN FALSE ELSE ~HasBit4(Flags(s, n))
black(s, n) == IF n = NULL THEN TRUE ELSE HasBit4(Flags(s, n))
flipColor(s, n) == SetFlags(s, n, Xor4(Flags(s, n)))
swapColor(s, a, b) ==
  IF HasBit4(Flags(s, a)) # HasBit4(Flags(s, b))
    THEN flipColor(flipColor(Chk(Chk(s, a), b), a), b)
    ELSE Chk(Chk(s, a), b)

\* a field reference that is read must not lie in the null cell
RefChk(s, r) == Chk(s, r[1])

\* the dereferences extfetchLinks(n) makes: n itself and, for rbfMulext,
\* the queue front and back whose fields it takes the address of
fetchChk(s, n) ==
  IF n = NULL THEN Crash(s)
  ELSE IF TypeOf(Flags(s, n)) = rbfMulext
    THEN Chk(Chk(s, Get(s, <<n, fFront>>)), Get(s, <<n, fBack>>))
    ELSE s

\* the dereferences extreferred() makes: the parent (its flags), and for a
\* rbfMulext parent its queue front
extreferredChk(s, n) ==
  LET parentNode == Get(s, extparent(n))
  IN IF parentNode = NULL THEN Crash(s)
     ELSE IF TypeOf(Flags(s, parentNode)) = rbfMulext
       THEN Chk(s, Get(s, <<parentNode, fFront>>))
       ELSE s


\* if(c != nullptr) *(c -> extparent()) = p
setParent(s, c, p) == IF c # NULL THEN Put(s, extparent(c), p) ELSE s
\* if(*field != nullptr) *((*field) -> extparent()) = p
setParentVia(s, field, p) == setParent(s, Get(s, field), p)
\* if((*ptr) -> field != nullptr) *((*ptr) -> field -> extparent()) = p
setParentAt(s, ptr, field, p) == setParentVia(s, <<Get(s, ptr), field>>, p)
\* *(n -> extreferred()) = v
setReferred(s, n, v) == Put(extreferredChk(s, n), extreferred(s, n), v)

\* --------------------------------------------------- doubleRedResolve
\* the function without its last line: the root keeps its colour
redRootFixKeep(s, node) == s

\* line 344: if(red(node) && node -> isRoot()) node -> flipColor();
redRootFix(s, node) ==
  IF s.fault THEN s
  ELSE IF red(s, node)
    THEN (IF isRoot(s, node) THEN flipColor(isRootChk(s, node), node)
                              ELSE isRootChk(s, node))
    ELSE s

\* black uncle, node is the outer grandchild: single rotation (lines 298-314)
redOuterCase(s, parent, grand, ancestor, subroot, pl, gl, parentInner, grandOuter) ==
  LET s1 == Put(s, subroot, parent)
      s2 == Put(s1, pl.parent, ancestor)
      c == Get(s2, parentInner)
      s3 == Put(s2, parentInner, grand)
      s4 == Put(s3, gl.parent, parent)
      s5 == Put(s4, grandOuter, c)
      s6 == IF c # NULL THEN Put(s5, extparent(c), grand) ELSE s5
      s7 == flipColor(s6, parent)
  IN flipColor(s7, grand)

\* black uncle, node is the inner grandchild: double rotation (lines 315-339)
redInnerCase(s, node, parent, grand, ancestor, subroot, pl, gl, parentInner, grandOuter, chirality) ==
  LET nl == extfetchLinks(s, node, chirality)
      s0 == RefChk(RefChk(fetchChk(s, node), nl.outer), nl.inner)
      b == Get(s0, nl.outer)
      c == Get(s0, nl.inner)
      s1 == Put(s0, subroot, node)
      s2 == Put(s1, nl.parent, ancestor)
      s3 == Put(s2, nl.outer, parent)
      s4 == Put(s3, pl.parent, node)
      s5 == Put(s4, nl.inner, grand)
      s6 == Put(s5, gl.parent, node)
      s7 == Put(s6, parentInner, b)
      s8 == IF b # NULL THEN Put(s7, extparent(b), parent) ELSE s7
      s9 == Put(s8, grandOuter, c)
      s10 == IF c # NULL THEN Put(s9, extparent(c), grand) ELSE s9
      s11 == flipColor(s10, node)
  IN flipColor(s11, grand)

\* a loop condition that does not stop at the root
redLoopCondRedOnly(s, node) == red(s, node)

\* the loop condition of line 253
redLoopCond(s, node) == red(s, node) /\ ~isRoot(s, node)

RECURSIVE doubleRedLoop(_, _, _)
doubleRedLoop(s, node, fuel) ==
  IF s.fault THEN s
  ELSE IF fuel = 0 THEN Crash(s)
  ELSE IF ~redLoopCond(s, node) THEN redRootFix(s, node)
  ELSE
    LET sr == isRootChk(s, node)
        parent == Get(s, extparent(node))
        pl == extfetchLinks(s, parent, FALSE)
        sp == fetchChk(sr, parent)
        grand == Get(s, pl.parent)
        gl == extfetchLinks(s, grand, FALSE)
        sg == RefChk(RefChk(fetchChk(sp, grand), gl.outer), gl.inner)
        chirality == (parent = Get(s, gl.inner))
        uncle == IF chirality THEN Get(s, gl.outer) ELSE Get(s, gl.inner)
    IN IF sg.fault THEN sg
       ELSE IF red(sg, uncle) THEN
         doubleRedLoop(flipColor(flipColor(flipColor(sg, parent), uncle), grand),
                       grand, fuel - 1)
       ELSE
         LET parentInner == IF chirality THEN pl.outer ELSE pl.inner
             parentOuter == IF chirality THEN pl.inner ELSE pl.outer
             grandOuter == IF chirality THEN gl.inner ELSE gl.outer
             ancestor == Get(sg, gl.parent)
             subroot == extreferred(sg, grand)
             sx == RefChk(RefChk(extreferredChk(sg, grand), parentOuter), parentInner)
         IN IF sx.fault THEN sx
            ELSE IF node = Get(sx, parentOuter)
              THEN redRootFix(redOuterCase(sx, parent, grand, ancestor, subroot,
                                           pl, gl, parentInner, grandOuter), parent)
              ELSE redRootFix(redInnerCase(sx, node, parent, grand, ancestor, subroot,
                                           pl, gl, parentInner, grandOuter, chirality),
                              node)

doubleRedResolve(s, node) == doubleRedLoop(s, node, Fuel)

\* a promotion that drops the colour of the target
insertDupSingleColourless(s, this, target) ==
  LET s1 == SetFlags(s, this, rbfMulint + rbfMulintFrontBack)
      s2 == Put(s1, <<this, fPrevious>>, Get(s1, <<target, fLeft>>))
      s3 == Put(s2, <<this, fNext>>, Get(s2, <<target, fRight>>))
      s4 == Put(s3, <<this, fMulext>>, target)
      s5 == SetFlags(s4, target, rbfMulext)
      s6 == Put(s5, <<target, fBack>>, this)
  IN Put(s6, <<target, fFront>>, this)

\* ------------------------------------------------------------- insert
\* relation == 0, target is rbfSingle (lines 542-553)
insertDupSingle(s, this, target) ==
  LET s1 == SetFlags(s, this, rbfMulint + rbfMulintFrontBack)
      s2 == Put(s1, <<this, fPrevious>>, Get(s1, <<target, fLeft>>))
      s3 == Put(s2, <<this, fNext>>, Get(s2, <<target, fRight>>))
      s4 == Put(s3, <<this, fMulext>>, target)
      s5 == SetFlags(s4, target, ClearType(Flags(s4, target)) + rbfMulext)
      s6 == Put(s5, <<target, fBack>>, this)
  IN Put(s6, <<target, fFront>>, this)

\* the local of line 555, front = &(type.mulext.front): the source takes the
\* field of *this*, the node being inserted
insertFrontRef(this, target) == <<this, fFront>>

\* relation == 0, target is rbfMulext (lines 554-570)
insertDupMulext(s, this, target) ==
  LET front == insertFrontRef(this, target)
      s1 == SetFlags(s, this, rbfMulint + rbfMulintFront)
      s2 == Put(s1, <<this, fMulext>>, target)
      f == Get(s2, front)
      s3 == SetFlags(s2, f, Xor4(Flags(s2, f)))
      s4 == Put(s3, <<f, fMulext>>, NULL)
      s5 == Put(s4, <<this, fPrevious>>, Get(s4, <<Get(s4, front), fPrevious>>))
      s6 == Put(s5, <<this, fNext>>, Get(s5, front))
      s7 == Put(s6, <<Get(s6, front), fPrevious>>, this)
  IN Put(s7, front, this)

\* relation != 0 (lines 571-580)
insertChild(s, this, target, relation) ==
  LET slot == IF relation < 0 THEN extleft(s, target) ELSE extright(s, target)
      s1 == Put(fetchChk(s, target), slot, this)
      s2 == Put(s1, <<this, fParent>>, target)
      s3 == SetFlags(s2, this, rbfSingle + rbfColorRed)
  IN IF red(s3, target) THEN doubleRedResolve(s3, this) ELSE s3

insert(s, this, target, relation) ==
  IF relation = 0
    THEN (IF TypeOf(Flags(s, target)) = rbfSingle
            THEN insertDupSingle(s, this, target)
            ELSE insertDupMulext(s, this, target))
    ELSE insertChild(s, this, target, relation)

\* ------------------------------------------------- doubleBlackResolve
\* red sibling (lines 381-401): rotate the sibling up; returns the state
blackRedSibling(s, parent, sibling, ancestor, subroot, pl, parentInner, sl) ==
  LET c == Get(s, sl.inner)
      s1 == Put(RefChk(s, sl.inner), parentInner, c)
      s2 == Put(s1, extparent(c), parent)
      s3 == Put(s2, sl.inner, parent)
      s4 == Put(s3, pl.parent, sibling)
      s5 == Put(s4, subroot, sibling)
      s6 == Put(s5, sl.parent, ancestor)
      s7 == flipColor(s6, parent)
  IN flipColor(s7, sibling)

\* red outer child of the sibling (lines 404-422); subroot and ancestor are
\* the ones fetched at the top of the iteration
blackRedOuter(s, parent, sibling, ancestor, subroot, pl, parentInner, sl) ==
  LET c == Get(s, sl.inner)
      s1 == Put(RefChk(s, sl.inner), parentInner, c)
      s2 == IF c # NULL THEN Put(s1, extparent(c), parent) ELSE s1
      s3 == Put(s2, sl.inner, parent)
      s4 == Put(s3, pl.parent, sibling)
      s5 == Put(s4, subroot, sibling)
      s6 == Put(s5, sl.parent, ancestor)
      s7 == swapColor(s6, sibling, parent)
      s8 == flipColor(s7, parent)
  IN flipColor(Chk(s8, Get(s8, sl.outer)), Get(s8, sl.outer))

\* red inner child of the sibling (lines 425-454)
blackRedInner(s, parent, sibling, ancestor, subroot, pl, parentInner, sl, chirality) ==
  LET inner == Get(s, sl.inner)
      il == extfetchLinks(s, inner, ~chirality)
      s0 == RefChk(RefChk(fetchChk(s, inner), il.inner), il.outer)
      c == Get(s0, il.inner)
      d == Get(s0, il.outer)
      s1 == Put(s0, parentInner, c)
      s2 == IF c # NULL THEN Put(s1, extparent(c), parent) ELSE s1
      s3 == Put(s2, sl.inner, d)
      s4 == IF d # NULL THEN Put(s3, extparent(d), sibling) ELSE s3
      s5 == Put(s4, il.inner, parent)
      s6 == Put(s5, pl.parent, inner)
      s7 == Put(s6, il.outer, sibling)
      s8 == Put(s7, sl.parent, inner)
      s9 == Put(s8, subroot, inner)
      s10 == Put(s9, il.parent, ancestor)
      s11 == swapColor(s10, inner, parent)
  IN flipColor(s11, parent)

RECURSIVE doubleBlackLoop(_, _, _)

\* lines 403-473: the red-outer, red-inner, red-parent and black-parent
\* cases, on the sibling and the links fetched before
doubleBlackCases(s, parent, sibling, ancestor, subroot, pl, parentInner, sl, chirality, fuel) ==
  IF s.fault THEN s
  ELSE IF red(s, Get(s, sl.outer))
    THEN blackRedOuter(s, parent, sibling, ancestor, subroot, pl, parentInner, sl)
  ELSE IF red(s, Get(s, sl.inner))
    THEN blackRedInner(s, parent, sibling, ancestor, subroot, pl, parentInner,
                       sl, chirality)
  ELSE IF red(s, parent)
    THEN swapColor(s, sibling, parent)
  ELSE doubleBlackLoop(flipColor(s, sibling), parent, fuel - 1)

\* lines 398-400: after the red-sibling rotation the sibling is c and only
\* its links are fetched again; subroot and ancestor stay as they were
doubleBlackRefetch(s, parent, c, ancestor, subroot, pl, parentInner, chirality, fuel) ==
  LET sl == extfetchLinks(s, c, ~chirality)
  IN doubleBlackCases(RefChk(RefChk(fetchChk(s, c), sl.outer), sl.inner),
                      parent, c, ancestor, subroot, pl, parentInner, sl,
                      chirality, fuel)

\* lines 379-401: the red-sibling case, then the other cases
doubleBlackSibling(s, parent, sibling, ancestor, subroot, pl, parentInner, sl, chirality, fuel) ==
  IF s.fault THEN s
  ELSE IF red(s, sibling)
    THEN doubleBlackRefetch(blackRedSibling(s, parent, sibling, ancestor, subroot,
                                            pl, parentInner, sl),
                            parent, Get(s, sl.inner), ancestor, subroot, pl,
                            parentInner, chirality, fuel)
    ELSE doubleBlackCases(RefChk(RefChk(s, sl.outer), sl.inner), parent, sibling,
                          ancestor, subroot, pl, parentInner, sl, chirality, fuel)

\* one iteration of the loop of line 349
doubleBlackLoop(s, node, fuel) ==
  IF s.fault THEN s
  ELSE IF fuel = 0 THEN Crash(s)
  ELSE IF isRootChk(s, node).fault THEN Crash(s)
  ELSE IF isRoot(s, node) THEN s
  ELSE
    LET parent == Get(s, extparent(node))
        pl == extfetchLinks(s, parent, FALSE)
        ancestor == Get(s, pl.parent)
        subroot == extreferred(s, parent)
        chirality == (Get(s, pl.inner) = node)
        parentInner == IF chirality THEN pl.outer ELSE pl.inner
        sibling == Get(s, parentInner)
        sl == extfetchLinks(s, sibling, ~chirality)
    IN doubleBlackSibling(
         fetchChk(RefChk(RefChk(extreferredChk(fetchChk(s, parent), parent),
                                pl.inner), parentInner), sibling),
         parent, sibling, ancestor, subroot, pl, parentInner, sl, chirality, fuel)

doubleBlackResolve(s, node) == doubleBlackLoop(s, node, Fuel)

\* ------------------------------------------------------------ extswap
\* the non-adjacent branch (lines 608-623): exchange the three link fields
\* and redirect the six references of the neighbours
extswapPlain(s, a, b) ==
  LET al == extfetchLinks(s, a, FALSE)
      bl == extfetchLinks(s, b, FALSE)
      s0 == RefChk(RefChk(RefChk(RefChk(fetchChk(fetchChk(s, a), b),
                 al.outer), al.inner), bl.outer), bl.inner)
      aParent == Get(s, al.parent)
      aLeft == Get(s, al.outer)
      aRight == Get(s, al.inner)
      bParent == Get(s, bl.parent)
      bLeft == Get(s, bl.outer)
      bRight == Get(s, bl.inner)
      aParentRefer == extreferred(s, a)
      bParentRefer == extreferred(s, b)
      aLeftRefer == IF aLeft # NULL THEN extparent(aLeft) ELSE NoRef
      bLeftRefer == IF bLeft # NULL THEN extparent(bLeft) ELSE NoRef
      aRightRefer == IF aRight # NULL THEN extparent(aRight) ELSE NoRef
      bRightRefer == IF bRight # NULL THEN extparent(bRight) ELSE NoRef
      s1 == Put(extreferredChk(extreferredChk(s0, a), b), al.parent, bParent)
      s2 == Put(s1, bl.parent, aParent)
      s3 == Put(s2, al.outer, bLeft)
      s4 == Put(s3, bl.outer, aLeft)
      s5 == Put(s4, al.inner, bRight)
      s6 == Put(s5, bl.inner, aRight)
      s7 == Put(Put(Put(s6, aRightRefer, b), aLeftRefer, b), aParentRefer, b)
  IN Put(Put(Put(s7, bRightRefer, a), bLeftRefer, a), bParentRefer, a)

\* the locals pseudoTreeSentinel, pseudoTreeRoot of lines 600-602: both are
\* default-constructed (rbfOrphan), then linked to each other
pseudoTree(s) ==
  [s EXCEPT !.h[PTS] = [fl |-> rbfOrphan, p |-> <<NULL, PTR, NULL>>],
            !.h[PTR] = [fl |-> rbfOrphan, p |-> <<PTS, NULL, NULL>>]]

\* the locals go out of scope when extswap returns
pseudoTreeDrop(s) == [s EXCEPT !.h[PTS] = EmptyCell, !.h[PTR] = EmptyCell]

RECURSIVE extswapRec(_, _, _, _)
extswapRec(s, a, b, depth) ==
  IF s.fault THEN s
  ELSE IF a = NULL \/ b = NULL THEN Crash(s)
  ELSE
    LET aParent == Get(s, extparent(a))
        bParent == Get(s, extparent(b))
    IN IF bParent = a \/ aParent = b
         THEN (IF depth = 0 THEN Crash(s)
               ELSE LET t0 == pseudoTree(s)
                        t1 == extswapRec(t0, PTR, b, depth - 1)
                        t2 == extswapRec(t1, a, b, depth - 1)
                        t3 == extswapRec(t2, PTR, a, depth - 1)
                    IN pseudoTreeDrop(t3))
         ELSE extswapPlain(s, a, b)

extswap(s, a, b) == extswapRec(s, a, b, 1)

\* ----------------------------------------------------------- nullswap
nullswapSingle(s, this, nul) ==
  LET s1 == SetFlags(s, nul, Flags(s, this))
      s2 == Copy(s1, <<nul, fParent>>, <<this, fParent>>)
      s3 == Copy(s2, <<nul, fLeft>>, <<this, fLeft>>)
      s4 == Copy(s3, <<nul, fRight>>, <<this, fRight>>)
      s5 == setParentVia(s4, <<nul, fLeft>>, nul)
      s6 == setParentVia(s5, <<nul, fRight>>, nul)
  IN setReferred(s6, this, nul)

nullswapMulint(s, this, nul) ==
  LET fl == Flags(s, this)
      s1 == SetFlags(s, nul, fl)
      s2 == Copy(s1, <<nul, fMulext>>, <<this, fMulext>>)
      s3 == Copy(s2, <<nul, fPrevious>>, <<this, fPrevious>>)
      s4 == Copy(s3, <<nul, fNext>>, <<this, fNext>>)
      s5 == IF HasBit4(fl) THEN PutAt(s4, <<this, fMulext>>, fFront, nul)
                           ELSE PutAt(s4, <<this, fPrevious>>, fNext, nul)
  IN IF HasBit8(fl) THEN PutAt(s5, <<this, fMulext>>, fBack, nul)
                    ELSE PutAt(s5, <<this, fNext>>, fPrevious, nul)

\* line 683: the node whose parent field is redirected for the right child,
\* as written: null.type.mulext.back -> type.mulint.mulext
nullswapRightOwner(s, nul) == Get(s, <<Get(s, <<nul, fBack>>), fMulext>>)

\* lines 682-683
nullswapRight(s, nul) ==
  IF Get(s, <<Get(s, <<nul, fBack>>), fNext>>) # NULL
    THEN Put(Chk(s, nullswapRightOwner(s, nul)),
             extparent(nullswapRightOwner(s, nul)), nul)
    ELSE s

nullswapMulext(s, this, nul) ==
  LET s1 == SetFlags(s, nul, Flags(s, this))
      s2 == Copy(s1, <<nul, fParent>>, <<this, fParent>>)
      s3 == Copy(s2, <<nul, fFront>>, <<this, fFront>>)
      s4 == Copy(s3, <<nul, fBack>>, <<this, fBack>>)
      s5 == PutAt(s4, <<nul, fFront>>, fMulext, nul)
      s6 == setParentAt(s5, <<nul, fFront>>, fPrevious, nul)
      s7 == PutAt(s6, <<nul, fBack>>, fMulext, nul)
      s8 == nullswapRight(s7, nul)
  IN setReferred(s8, this, nul)

nullswap(s, this, nul) ==
  LET ty == TypeOf(Flags(s, this))
  IN IF s.fault \/ ty = rbfOrphan THEN s
     ELSE ResetNode(IF ty = rbfSingle THEN nullswapSingle(s, this, nul)
                    ELSE IF ty = rbfMulint THEN nullswapMulint(s, this, nul)
                    ELSE nullswapMulext(s, this, nul), this)

\* swap: three nullswap calls through the local orphan node c
swap(s, a, b) == nullswap(nullswap(nullswap(s, a, TMP), b, a), TMP, b)

\* -------------------------------------------------------------- erase
\* the flags word whose colour bits the demoted head receives (line 711):
\* the source reads the flags of *this* (the member), not of the head
eraseDemoteFlags(s, this, mulext) == Flags(s, this)

\* a demotion that adopts the member's previous on both sides
eraseMulintSoleOneSided(s, this) ==
  LET mulext == Get(s, <<this, fMulext>>)
      s1 == SetFlags(s, mulext, ClearType(eraseDemoteFlags(s, this, mulext)) + rbfSingle)
      s2 == Copy(s1, <<mulext, fLeft>>, <<this, fPrevious>>)
  IN Copy(s2, <<mulext, fRight>>, <<this, fPrevious>>)

\* rbfMulint, sole member of the strip (lines 707-713)
eraseMulintSole(s, this) ==
  LET mulext == Get(s, <<this, fMulext>>)
      s1 == SetFlags(s, mulext, ClearType(eraseDemoteFlags(s, this, mulext)) + rbfSingle)
      s2 == Copy(s1, <<mulext, fLeft>>, <<this, fPrevious>>)
  IN Copy(s2, <<mulext, fRight>>, <<this, fNext>>)

\* lines 716-721: the next member becomes the queue front
eraseMulintFront(s, this) ==
  LET s1 == CopyAt(s, <<this, fMulext>>, fFront, <<this, fNext>>)
      s2 == CopyAt(s1, <<this, fNext>>, fMulext, <<this, fMulext>>)
  IN SetBit4(s2, Get(s2, <<this, fNext>>))

\* lines 724-729: the previous member becomes the queue back
eraseMulintBack(s, this) ==
  LET s1 == CopyAt(s, <<this, fMulext>>, fBack, <<this, fPrevious>>)
      s2 == CopyAt(s1, <<this, fPrevious>>, fMulext, <<this, fMulext>>)
  IN SetBit8(s2, Get(s2, <<this, fPrevious>>))

\* lines 732-733: the two unconditional writes to the neighbours
eraseMulintUnlink(s, this) ==
  CopyAt(CopyAt(s, <<this, fNext>>, fPrevious, <<this, fPrevious>>),
         <<this, fPrevious>>, fNext, <<this, fNext>>)

\* rbfMulint, other members remain (lines 714-734)
eraseMulintMore(s, this) ==
  LET fl == Flags(s, this)
      sa == IF HasBit4(fl) THEN eraseMulintFront(s, this) ELSE s
      sb == IF HasBit8(fl) THEN eraseMulintBack(sa, this) ELSE sa
  IN eraseMulintUnlink(sb, this)

eraseMulint(s, this) ==
  IF HasBit4(Flags(s, this)) /\ HasBit8(Flags(s, this))
    THEN eraseMulintSole(s, this)
    ELSE eraseMulintMore(s, this)

\* the test of line 753, (back -> flags & rbfMulintFrontBack) != 0
eraseBackIsOnly(fl) == HasBit4(fl) \/ HasBit8(fl)

\* a replacement that keeps the member's groupHead field as its parent
eraseMulextToSingleNoParent(s, this, back) == Retag(s, back, this, rbfSingle)

\* lines 754-771: the back member becomes a rbfSingle node
eraseMulextToSingle(s, this, back) ==
  Copy(Retag(s, back, this, rbfSingle), <<back, fParent>>, <<this, fParent>>)

\* lines 772-786: the back member becomes the rbfMulext node, the member
\* before it the new back
eraseMulextToMulext(s, this, back) ==
  LET newBack == Get(s, <<back, fPrevious>>)
      u1 == Put(s, <<newBack, fNext>>, Get(s, <<back, fNext>>))
      u2 == Put(u1, <<newBack, fMulext>>, back)
      u3 == SetBit8(u2, newBack)
      u4 == Retag(u3, back, this, rbfMulext)
      u5 == Copy(u4, <<back, fFront>>, <<this, fFront>>)
      u6 == Put(u5, <<back, fBack>>, newBack)
  IN Copy(u6, <<back, fParent>>, <<this, fParent>>)

\* lines 753-787
eraseMulextReplace(s, this, back) ==
  IF eraseBackIsOnly(Flags(s, back))
    THEN eraseMulextToSingle(s, this, back)
    ELSE eraseMulextToMulext(s, this, back)

\* rbfMulext (lines 739-787): the queue back replaces the erased head
eraseMulext(s, this) ==
  LET back == Get(s, <<this, fBack>>)
      l == extfetchLinks(s, this, FALSE)
      s1 == setReferred(RefChk(RefChk(fetchChk(s, this), l.outer), l.inner),
                        this, back)
      s2 == setParentVia(s1, l.outer, back)
      s3 == setParentVia(s2, l.inner, back)
  IN eraseMulextReplace(s3, this, back)

\* lines 800-803: the leftmost node of the subtree below n
RECURSIVE leftmost(_, _, _)
leftmost(s, n, fuel) ==
  IF n = NULL \/ fuel = 0 THEN NULL
  ELSE IF TypeOf(Flags(s, n)) = rbfMulext /\ Get(s, <<n, fFront>>) = NULL THEN NULL
  ELSE LET lefter == Get(s, extleft(s, n))
       IN IF lefter = NULL THEN n ELSE leftmost(s, lefter, fuel - 1)

\* two children (lines 798-811): exchange position and colour with the
\* in-order successor
eraseSwapSuccessor(s, this) ==
  LET l == extfetchLinks(s, this, FALSE)
      leftmostNode == leftmost(s, Get(s, l.inner), Fuel)
  IN IF Get(s, l.outer) # NULL /\ Get(s, l.inner) # NULL
       THEN (IF leftmostNode = NULL THEN Crash(s)
             ELSE swapColor(extswap(s, this, leftmostNode), this, leftmostNode))
       ELSE s

\* one child (lines 814-831)
eraseOneChild(s, this, l) ==
  LET referred == extreferred(s, this)
      child == IF Get(s, l.outer) # NULL THEN Get(s, l.outer) ELSE Get(s, l.inner)
      s1 == Put(extreferredChk(s, this), extparent(child), Get(s, l.parent))
      s2 == Put(s1, referred, child)
  IN flipColor(s2, child)

\* lines 840-841: *referred = nullptr
eraseUnlink(s, this) == IF s.fault THEN s ELSE setReferred(s, this, NULL)

\* a variant that resolves a deficit at a red leaf too
eraseLeafAlways(s, this) == eraseUnlink(doubleBlackResolve(s, this), this)

\* no child (lines 832-842)
eraseLeaf(s, this) ==
  eraseUnlink(IF black(s, this) THEN doubleBlackResolve(s, this) ELSE s, this)

\* lines 813-842, on the links fetched again after the exchange
eraseDetach(s, this) ==
  LET l == extfetchLinks(s, this, FALSE)
  IN IF s.fault THEN s
     ELSE IF Get(s, l.outer) # NULL \/ Get(s, l.inner) # NULL
       THEN eraseOneChild(s, this, l)
       ELSE eraseLeaf(s, this)

eraseSingle(s, this) == eraseDetach(eraseSwapSuccessor(s, this), this)

\* the switch without its default case: an orphan falls into the case of
\* the external nodes
eraseNoDefault(s, this) ==
  LET ty == TypeOf(Flags(s, this))
  IN ResetNode(IF ty = rbfMulint THEN eraseMulint(s, this)
               ELSE IF ty = rbfMulext THEN eraseMulext(s, this)
               ELSE eraseSingle(s, this), this)

erase(s, this) ==
  LET ty == TypeOf(Flags(s, this))
  IN IF ty = rbfOrphan THEN s
     ELSE ResetNode(IF ty = rbfMulint THEN eraseMulint(s, this)
                    ELSE IF ty = rbfMulext THEN eraseMulext(s, this)
                    ELSE eraseSingle(s, this), this)

\* ------------------------------------------------------ sentinelPrune
\* lines 488-513: flatten a rbfMulext node into a rbfSingle node
RECURSIVE pruneChain(_, _, _)
pruneChain(s, mulint, fuel) ==
  IF mulint = NULL \/ fuel = 0 \/ s.fault THEN s
  ELSE LET mulintNext == Get(s, <<mulint, fNext>>)
           s1 == Put(s, <<mulint, fPrevious>>, NULL)
           s2 == Put(s1, <<mulint, fNext>>, NULL)
           s3 == SetFlags(s2, mulint, rbfOrphan)
       IN pruneChain(s3, mulintNext, fuel - 1)

pruneFlatten(s, node) ==
  LET front == Get(s, <<node, fFront>>)
      back == Get(s, <<node, fBack>>)
      left == Get(s, <<front, fPrevious>>)
      right == Get(s, <<back, fNext>>)
      s0 == Chk(Chk(s, front), back)
      s1 == Put(s0, <<front, fPrevious>>, NULL)
      s2 == Put(s1, <<back, fNext>>, NULL)
      s3 == Put(s2, <<front, fMulext>>, NULL)
      s4 == Put(s3, <<back, fMulext>>, NULL)
      s5 == pruneChain(s4, front, Fuel)
      s6 == SetFlags(s5, node, rbfSingle)
      s7 == Put(s6, <<node, fLeft>>, left)
  IN Put(s7, <<node, fRight>>, right)

\* the node with its queue flattened, when it is a rbfMulext (lines 488-513)
pruneFlat(s, node) ==
  IF TypeOf(Flags(s, node)) = rbfMulext THEN pruneFlatten(s, node) ELSE s

\* a walk that climbs through the wrong field (right instead of parent)
pruneStepNodeWrongField(s, node) ==
  IF Get(s, <<node, fLeft>>) # NULL THEN Get(s, <<node, fLeft>>)
  ELSE Get(s, <<node, fRight>>)

\* lines 519-534 on the flattened node: the node the walk goes to next
pruneStepNode(s, node) ==
  IF Get(s, <<node, fLeft>>) # NULL THEN Get(s, <<node, fLeft>>)
  ELSE IF Get(s, <<node, fRight>>) # NULL THEN Get(s, <<node, fRight>>)
  ELSE Get(s, <<node, fParent>>)

\* lines 519-534 on the flattened node: what the iteration writes
pruneStepState(s, node) ==
  IF Get(s, <<node, fLeft>>) # NULL THEN Put(s, <<node, fLeft>>, NULL)
  ELSE IF Get(s, <<node, fRight>>) # NULL THEN Put(s, <<node, fRight>>, NULL)
  ELSE Put(SetFlags(s, node, rbfOrphan), <<node, fParent>>, NULL)

\* the loop of line 485; it ends at the first node tagged rbfOrphan
RECURSIVE pruneWalk(_, _, _)
pruneWalk(s, node, fuel) ==
  IF s.fault THEN s
  ELSE IF node = NULL \/ fuel = 0 THEN Crash(s)
  ELSE IF TypeOf(Flags(s, node)) = rbfOrphan THEN s
  ELSE pruneWalk(pruneStepState(pruneFlat(s, node), node),
                 pruneStepNode(pruneFlat(s, node), node), fuel - 1)

\* the number of iterations the loop of line 485 makes from node, or -1
\* when it is still running after fuel iterations or reads a null node
RECURSIVE pruneIterations(_, _, _)
pruneIterations(s, node, fuel) ==
  IF s.fault \/ node = NULL \/ fuel = 0 THEN 0 - 1
  ELSE IF TypeOf(Flags(s, node)) = rbfOrphan THEN 0
  ELSE LET r == pruneIterations(pruneStepState(pruneFlat(s, node), node),
                                pruneStepNode(pruneFlat(s, node), node), fuel - 1)
       IN IF r < 0 THEN r ELSE r + 1

sentinelPrune(s, root) ==
  LET node == Get(s, <<root, fRoot>>)
  IN IF node = NULL THEN s
     ELSE pruneWalk(Put(s, <<root, fRoot>>, NULL), node, 4 * Fuel)

\* =====================================================================
\* The state machine: one sentinel, the caller's nodes, and the calls the
\* container layer makes.
\* =====================================================================
VARIABLES heap, fault, live, op, steps, lists, lop, taken

vars == <<heap, fault, live, op, steps, lists, lop, taken>>

\* heap  : the node records, indexed by address
\* fault : a call dereferenced the null address (the process is dead)
\* live  : the nodes the caller has inserted and not erased
\* op    : the last call, for reference in the properties
\* steps : the number of calls made, in the runs of bounded length
\* taken : the branch the last erase went through, in the runs that record it

Mem(h) == [h |-> h, fault |-> FALSE]
Now == Mem(heap)

\* ---------------------------- what a traversal of the positions sees
tagOf(h, n) == TypeOf(h[n].fl)
rootOf(h) == h[SENT].p[fRoot]
leftOf(h, n) == Get(Mem(h), extleft(Mem(h), n))
rightOf(h, n) == Get(Mem(h), extright(Mem(h), n))
parentOf(h, n) == h[n].p[fParent]
isRed(h, n) == red(Mem(h), n)

\* in-order sequence of the positions below n; a walk that comes back to a
\* node on its own path (a cycle) is cut with the marker NULL
RECURSIVE InOrderFrom(_, _, _)
InOrderFrom(h, n, path) ==
  IF n = NULL THEN <<>>
  ELSE IF n \in path THEN <<NULL>>
  ELSE InOrderFrom(h, leftOf(h, n), path \cup {n}) \o <<n>>
       \o InOrderFrom(h, rightOf(h, n), path \cup {n})

InOrder(h) == InOrderFrom(h, rootOf(h), {})
SeqSet(q) == {q[i] : i \in 1 .. Len(q)}
Positions(h) == SeqSet(InOrder(h))
KeysOfSeq(q) == [i \in 1 .. Len(q) |-> IF q[i] \in Nodes THEN KeyOf(q[i]) ELSE 0]
KeySeq(h) == KeysOfSeq(InOrder(h))
TreeKeys(h) == SeqSet(KeySeq(h))

\* black height of the subtree below n, or -1 when two paths disagree
RECURSIVE BlackHeight(_, _, _)
BlackHeight(h, n, path) ==
  IF n = NULL THEN 0
  ELSE IF n \in path THEN 0 - 1
  ELSE LET l == BlackHeight(h, leftOf(h, n), path \cup {n})
           r == BlackHeight(h, rightOf(h, n), path \cup {n})
       IN IF l < 0 \/ r < 0 \/ l # r THEN 0 - 1
          ELSE l + (IF isRed(h, n) THEN 0 ELSE 1)

RootBlack(h) == rootOf(h) = NULL \/ ~isRed(h, rootOf(h))
NoRedRed(h) ==
  \A n \in Positions(h) :
    isRed(h, n) => (~isRed(h, leftOf(h, n)) /\ ~isRed(h, rightOf(h, n)))
BlackBalanced(h) == BlackHeight(h, rootOf(h), {}) >= 0
RBValid(h) == RootBlack(h) /\ NoRedRed(h) /\ BlackBalanced(h)

\* the queue of a rbfMulext position, front to back
RECURSIVE QueueFrom(_, _, _, _)
QueueFrom(h, m, back, fuel) ==
  IF m = NULL \/ fuel = 0 THEN <<>>
  ELSE IF m = back THEN <<m>>
  ELSE <<m>> \o QueueFrom(h, h[m].p[fNext], back, fuel - 1)

Queue(h, n) ==
  IF tagOf(h, n) = rbfMulext THEN QueueFrom(h, h[n].p[fFront], h[n].p[fBack], Fuel)
  ELSE <<>>

\* ------------------ the container's key lookup (external to the core)
RECURSIVE Descend(_, _, _, _)
Descend(h, n, k, fuel) ==
  IF fuel = 0 \/ n \notin Nodes THEN <<NULL, 0>>
  ELSE IF k = KeyOf(n) THEN <<n, 0>>
  ELSE LET c == IF k < KeyOf(n) THEN leftOf(h, n) ELSE rightOf(h, n)
       IN IF c = NULL THEN <<n, IF k < KeyOf(n) THEN 0 - 1 ELSE 1>>
          ELSE Descend(h, c, k, fuel - 1)

Lookup(h, k) ==
  IF rootOf(h) = NULL THEN <<SENT, 0 - 1>> ELSE Descend(h, rootOf(h), k, Fuel)

\* =====================================================================
\* exotic::list (include/exotic/list.hpp): two lists and the list nodes
\* =====================================================================
MaxListNodes == 4
ListNodes == 1 .. MaxListNodes              \* listNode objects of the caller
ListA == MaxListNodes + 1                   \* sentinel of the first list
ListB == MaxListNodes + 2                   \* sentinel of the second list
Sentinels == {ListA, ListB}
ListCells == 1 .. (MaxListNodes + 2)

\* listNode(): previous(nullptr), next(nullptr)
listNode == [previous |-> NULL, next |-> NULL]
\* list(): sentinel.previous = sentinel.next = &sentinel
list ==
  [lk |-> [c \in ListCells |-> IF c \in Sentinels THEN [previous |-> c, next |-> c]
                                ELSE listNode],
   fault |-> FALSE]

\* node -> previous = v, node -> next = v (a write through nullptr faults)
setPrevious(s, node, v) ==
  IF s.fault \/ node = NULL THEN [s EXCEPT !.fault = TRUE]
  ELSE [s EXCEPT !.lk[node].previous = v]
setNext(s, node, v) ==
  IF s.fault \/ node = NULL THEN [s EXCEPT !.fault = TRUE]
  ELSE [s EXCEPT !.lk[node].next = v]

isOrphanNode(s, this) == s.lk[this].previous = NULL /\ s.lk[this].next = NULL

\* previous = &node; next = node.next; previous -> next = next -> previous = this
insertAfter(s, this, node) ==
  LET s1 == setPrevious(s, this, node)
      s2 == setNext(s1, this, s1.lk[node].next)
      s3 == setPrevious(s2, s2.lk[this].next, this)
  IN setNext(s3, s3.lk[this].previous, this)

\* next = &node; previous = node.previous; previous -> next = next -> previous = this
insertBefore(s, this, node) ==
  LET s1 == setNext(s, this, node)
      s2 == setPrevious(s1, this, s1.lk[node].previous)
      s3 == setPrevious(s2, s2.lk[this].next, this)
  IN setNext(s3, s3.lk[this].previous, this)

\* an unlink that leaves the neighbours as they are
unlinkSelfOnly(s, this) == setNext(setPrevious(s, this, NULL), this, NULL)

unlink(s, this) ==
  LET s1 == IF s.lk[this].previous # NULL
              THEN setNext(s, s.lk[this].previous, s.lk[this].next) ELSE s
      s2 == IF s1.lk[this].next # NULL
              THEN setPrevious(s1, s1.lk[this].next, s1.lk[this].previous) ELSE s1
  IN setNext(setPrevious(s2, this, NULL), this, NULL)

\* listNode::swap(b): the four neighbours are read first, then rewritten
listNodeSwap(s, this, b) ==
  LET ap == s.lk[this].previous
      an == s.lk[this].next
      bp == s.lk[b].previous
      bn == s.lk[b].next
      s1 == IF ap # NULL THEN setNext(s, ap, b) ELSE s
      s2 == IF an # NULL THEN setPrevious(s1, an, b) ELSE s1
      s3 == IF bp # NULL THEN setNext(s2, bp, this) ELSE s2
      s4 == IF bn # NULL THEN setPrevious(s3, bn, this) ELSE s3
      s5 == setNext(setPrevious(s4, this, bp), this, bn)
  IN setNext(setPrevious(s5, b, ap), b, an)

destroyNode == TRUE
\* a destructor that leaves the links as they are
listNodeDestroyKeep(s, this) == s
\* ~listNode(): if(scopeType::destroyNode) unlink()
listNodeDestroy(s, this) == IF destroyNode THEN unlink(s, this) ELSE s

empty(s, sentinel) == s.lk[sentinel].next = sentinel

\* a push that links the node whatever its state
pushFrontUnchecked(s, sentinel, node) == [st |-> insertAfter(s, node, sentinel), ok |-> TRUE]

pushFront(s, sentinel, node) ==
  IF ~isOrphanNode(s, node) THEN [st |-> s, ok |-> FALSE]
  ELSE [st |-> insertAfter(s, node, sentinel), ok |-> TRUE]

pushBack(s, sentinel, node) ==
  IF ~isOrphanNode(s, node) THEN [st |-> s, ok |-> FALSE]
  ELSE [st |-> insertBefore(s, node, sentinel), ok |-> TRUE]

\* the node popped (nullptr for an empty list) and the state it leaves
popFront(s, sentinel) ==
  IF empty(s, sentinel) THEN [st |-> s, node |-> NULL]
  ELSE [st |-> unlink(s, s.lk[sentinel].next), node |-> s.lk[sentinel].next]

popBack(s, sentinel) ==
  IF empty(s, sentinel) THEN [st |-> s, node |-> NULL]
  ELSE [st |-> unlink(s, s.lk[sentinel].previous), node |-> s.lk[sentinel].previous]

\* ------------------------------------------------ iterators of a list
\* an iterator is the list it was made from and the node it is at
iterator(sentinel, current) == [iterable |-> sentinel, current |-> current]
beginForward(s, sentinel) ==
  IF s.lk[sentinel].next = sentinel THEN NULL ELSE s.lk[sentinel].next
beginBackward(s, sentinel) ==
  IF s.lk[sentinel].previous = sentinel THEN NULL ELSE s.lk[sentinel].previous
begin(s, sentinel) == iterator(sentinel, beginForward(s, sentinel))
end(s, sentinel) == iterator(sentinel, NULL)
rbegin(s, sentinel) == iterator(sentinel, beginBackward(s, sentinel))
rend(s, sentinel) == iterator(sentinel, NULL)

\* a step that hands out whatever next holds, the sentinel included
iterateForwardRaw(s, sentinel, node) == IF node = NULL THEN NULL ELSE s.lk[node].next

iterateForward(s, sentinel, node) ==
  IF node = NULL THEN NULL
  ELSE IF s.lk[node].next = sentinel THEN NULL ELSE s.lk[node].next

iterateBackward(s, sentinel, node) ==
  IF node = NULL THEN NULL
  ELSE IF s.lk[node].previous = sentinel THEN NULL ELSE s.lk[node].previous

equals(lit, l, rit, r) ==
  IF l = NULL /\ r = NULL THEN TRUE
  ELSE IF lit # rit THEN FALSE
  ELSE l = r
notEquals(lit, l, rit, r) == ~equals(lit, l, rit, r)
dereference(node) == node

\* for(it = begin(); it != end(); ++it): the objects the loop body sees; a
\* loop that has not ended after more rounds than there are cells is cut
\* with the marker NULL
RECURSIVE forwardLoop(_, _, _)
forwardLoop(s, it, fuel) ==
  IF ~notEquals(it.iterable, it.current, end(s, it.iterable).iterable, end(s, it.iterable).current)
    THEN <<>>
  ELSE IF fuel = 0 THEN <<NULL>>
  ELSE <<dereference(it.current)>>
       \o forwardLoop(s, iterator(it.iterable, iterateForward(s, it.iterable, it.current)), fuel - 1)

RECURSIVE backwardLoop(_, _, _)
backwardLoop(s, it, fuel) ==
  IF ~notEquals(it.iterable, it.current, rend(s, it.iterable).iterable, rend(s, it.iterable).current)
    THEN <<>>
  ELSE IF fuel = 0 THEN <<NULL>>
  ELSE <<dereference(it.current)>>
       \o backwardLoop(s, iterator(it.iterable, iterateBackward(s, it.iterable, it.current)), fuel - 1)

\* --------------------------------------- insert and erase at iterators
\* an insert that links the node on the other side of the cursor
listInsertForwardAfter(s, sentinel, it, node) ==
  IF ~isOrphanNode(s, node) THEN [st |-> s, ok |-> FALSE]
  ELSE [st |-> insertAfter(s, node, IF it.current = NULL THEN sentinel ELSE it.current),
        ok |-> TRUE]

\* bool insert(forwardIteratorType iterator, objectType& object)
listInsertForward(s, sentinel, it, node) ==
  IF ~isOrphanNode(s, node) THEN [st |-> s, ok |-> FALSE]
  ELSE [st |-> insertBefore(s, node, IF it.current = NULL THEN sentinel ELSE it.current),
        ok |-> TRUE]

\* bool insert(backwardIteratorType iterator, objectType& object)
listInsertBackward(s, sentinel, it, node) ==
  IF ~isOrphanNode(s, node) THEN [st |-> s, ok |-> FALSE]
  ELSE [st |-> insertAfter(s, node, IF it.current = NULL THEN sentinel ELSE it.current),
        ok |-> TRUE]

\* an erase that hands back the cursor it was given
listEraseForwardStay(s, sentinel, it) ==
  IF it.current = NULL THEN [st |-> s, it |-> iterator(sentinel, it.current)]
  ELSE [st |-> unlink(s, it.current), it |-> iterator(sentinel, it.current)]

\* forwardIteratorType erase(forwardIteratorType iterator)
listEraseForward(s, sentinel, it) ==
  IF it.current = NULL THEN [st |-> s, it |-> iterator(sentinel, it.current)]
  ELSE [st |-> unlink(s, it.current),
        it |-> iterator(sentinel, IF s.lk[it.current].next = sentinel THEN NULL
                                  ELSE s.lk[it.current].next)]

\* backwardIteratorType erase(backwardIteratorType iterator)
listEraseBackward(s, sentinel, it) ==
  IF it.current = NULL THEN [st |-> s, it |-> iterator(sentinel, it.current)]
  ELSE [st |-> unlink(s, it.current),
        it |-> iterator(sentinel, IF s.lk[it.current].previous = sentinel THEN NULL
                                  ELSE s.lk[it.current].previous)]

\* the cursors an iterator of the list can be at: its elements and the end
Cursors(s, sentinel) ==
  {NULL} \cup SeqSet(forwardLoop(s, begin(s, sentinel), MaxListNodes + 2))

\* ------------------------------- the branches a call of erase goes through
\* one record for each iteration of the loop of doubleBlackResolve (lines
\* 350-474) that starts at node: whether the sibling fetched on line 376 is
\* present, its colour, and whether its inner child is present; only the
\* black-parent case (lines 467-472) goes on to another iteration
RECURSIVE deficitPath(_, _, _)
deficitPath(s, node, fuel) ==
  IF fuel = 0 \/ node = NULL \/ isRootChk(s, node).fault THEN <<>>
  ELSE IF isRoot(s, node) THEN <<>>
  ELSE
    LET parent == Get(s, extparent(node))
        pl == extfetchLinks(s, parent, FALSE)
        chirality == (Get(s, pl.inner) = node)
        sibling == Get(s, IF chirality THEN pl.outer ELSE pl.inner)
        sl == extfetchLinks(s, sibling, ~chirality)
        here == [sibling |-> sibling # NULL, red |-> red(s, sibling),
                 inner |-> sibling # NULL /\ Get(s, sl.inner) # NULL]
    IN IF sibling = NULL \/ red(s, sibling) \/ red(s, parent)
          \/ red(s, Get(s, sl.outer)) \/ red(s, Get(s, sl.inner))
         THEN <<here>>
         ELSE <<here>> \o deficitPath(flipColor(s, sibling), parent, fuel - 1)

\* the number of iterations the loop of doubleRedResolve (line 253) makes
\* from node, the one that ends in a fault included, or -1 when the loop is
\* still running after fuel iterations; only the red-uncle step (lines
\* 272-280) goes on to another iteration, with the grandparent as node
RECURSIVE doubleRedIterations(_, _, _)
doubleRedIterations(s, node, fuel) ==
  IF fuel = 0 THEN 0 - 1
  ELSE IF s.fault \/ node = NULL \/ ~redLoopCond(s, node) THEN 0
  ELSE
    LET parent == Get(s, extparent(node))
        pl == extfetchLinks(s, parent, FALSE)
        grand == Get(s, pl.parent)
        gl == extfetchLinks(s, grand, FALSE)
        chirality == (parent = Get(s, gl.inner))
        uncle == IF chirality THEN Get(s, gl.outer) ELSE Get(s, gl.inner)
        next == IF parent = NULL \/ grand = NULL \/ ~red(s, uncle) THEN 0
                ELSE doubleRedIterations(
                       flipColor(flipColor(flipColor(s, parent), uncle), grand),
                       grand, fuel - 1)
    IN IF next < 0 THEN next ELSE next + 1

\* the same for the loop of doubleBlackResolve (line 350): only the
\* black-parent case (lines 467-472) goes on, with the parent as node
RECURSIVE doubleBlackIterations(_, _, _)
doubleBlackIterations(s, node, fuel) ==
  IF fuel = 0 THEN 0 - 1
  ELSE IF s.fault \/ node = NULL \/ isRootChk(s, node).fault THEN 0
  ELSE IF isRoot(s, node) THEN 0
  ELSE
    LET parent == Get(s, extparent(node))
        pl == extfetchLinks(s, parent, FALSE)
        chirality == (Get(s, pl.inner) = node)
        sibling == Get(s, IF chirality THEN pl.outer ELSE pl.inner)
        sl == extfetchLinks(s, sibling, ~chirality)
        next == IF parent = NULL \/ sibling = NULL \/ red(s, sibling) \/ red(s, parent)
                   \/ red(s, Get(s, sl.outer)) \/ red(s, Get(s, sl.inner))
                  THEN 0
                  ELSE doubleBlackIterations(flipColor(s, sibling), parent, fuel - 1)
    IN IF next < 0 THEN next ELSE next + 1

NoPath == [branch |-> "none", black |-> FALSE, childRed |-> FALSE, deficit |-> <<>>]

\* the branch of erase (lines 813-842) a Single node takes after the exchange
\* with its successor, the colours the branch finds, and the iterations of
\* doubleBlackResolve
erasePath(h, this) ==
  LET s == eraseSwapSuccessor(Mem(h), this)
      l == extfetchLinks(s, this, FALSE)
      child == IF Get(s, l.outer) # NULL THEN Get(s, l.outer) ELSE Get(s, l.inner)
  IN IF tagOf(h, this) # rbfSingle \/ s.fault THEN NoPath
     ELSE IF child # NULL
       THEN [NoPath EXCEPT !.branch = "child", !.black = black(s, this),
                           !.childRed = red(s, child)]
     ELSE IF black(s, this)
       THEN [NoPath EXCEPT !.branch = "leaf", !.black = TRUE,
                           !.deficit = deficitPath(s, this, Fuel)]
     ELSE [NoPath EXCEPT !.branch = "leaf"]

\* ------------------------------------------------------------ actions
Init ==
  /\ heap = [c \in Cells |-> EmptyCell]
  /\ fault = FALSE
  /\ live = {}
  /\ op = [name |-> "init", node |-> NULL, peer |-> NULL, tag |-> rbfOrphan, dir |-> 0,
           rt |-> FALSE, rbPre |-> TRUE, keysPre |-> {}]
  /\ steps = 0
  /\ lists = list
  /\ lop = [name |-> "init", list |-> NULL, node |-> NULL, ok |-> FALSE, at |-> NULL, ret |-> NULL,
            content |-> [l \in Sentinels |-> <<>>]]
  /\ taken = NoPath

\* a call that faults kills the process: nothing of its partial writes is
\* observed afterwards
Commit(r) ==
  /\ fault' = r.fault
  /\ heap' = IF r.fault THEN heap ELSE r.h
  /\ UNCHANGED <<lists, lop>>

Insert(n) ==
  /\ ~fault
  /\ n \in Nodes \ live
  /\ tagOf(heap, n) = rbfOrphan
  /\ LET t == Lookup(heap, KeyOf(n))
     IN /\ t[1] # NULL
        /\ Commit(insert(Now, n, t[1], t[2]))
        /\ op' = [name |-> "insert", node |-> n, peer |-> t[1], tag |-> tagOf(heap, t[1]),
                  dir |-> t[2], rt |-> FALSE, rbPre |-> RBValid(heap),
                  keysPre |-> TreeKeys(heap)]
  /\ live' = IF fault' THEN live ELSE live \cup {n}

Erase(n) ==
  /\ ~fault
  /\ n \in live
  /\ Commit(erase(Now, n))
  /\ op' = [name |-> "erase", node |-> n, peer |-> NULL, tag |-> tagOf(heap, n), dir |-> 0,
            rt |-> (op.name = "insert" /\ op.node = n),
            rbPre |-> IF op.name = "insert" /\ op.node = n THEN op.rbPre
                      ELSE RBValid(heap),
            keysPre |-> IF op.name = "insert" /\ op.node = n THEN op.keysPre
                        ELSE TreeKeys(heap)]
  /\ live' = IF fault' THEN live ELSE live \ {n}

Prune ==
  /\ ~fault
  /\ Commit(sentinelPrune(Now, SENT))
  /\ op' = [name |-> "prune", node |-> SENT, peer |-> NULL, tag |-> rbfOrphan, dir |-> 0,
            rt |-> FALSE, rbPre |-> RBValid(heap), keysPre |-> TreeKeys(heap)]
  /\ live' = IF fault' THEN live ELSE {}

\* relocate: the value of node n moves to the orphan node m (same key)
Relocate(n, m) ==
  /\ ~fault
  /\ n \in live
  /\ m \in Nodes \ live
  /\ tagOf(heap, m) = rbfOrphan
  /\ KeyOf(m) = KeyOf(n)
  /\ Commit(nullswap(Now, n, m))
  /\ op' = [name |-> "relocate", node |-> n, peer |-> m, tag |-> tagOf(heap, n), dir |-> 0,
            rt |-> FALSE, rbPre |-> RBValid(heap), keysPre |-> TreeKeys(heap)]
  /\ live' = IF fault' THEN live ELSE (live \ {n}) \cup {m}

\* swap of two nodes that carry the same key, at least one of them linked
Swap(a, b) ==
  /\ ~fault
  /\ a \in live
  /\ b \in Nodes \ {a}
  /\ KeyOf(a) = KeyOf(b)
  /\ Commit(swap(Now, a, b))
  /\ op' = [name |-> "swap", node |-> a, peer |-> b, tag |-> tagOf(heap, a), dir |-> 0,
            rt |-> FALSE, rbPre |-> RBValid(heap), keysPre |-> TreeKeys(heap)]
  /\ live' = IF fault' \/ b \in live THEN live ELSE (live \ {a}) \cup {b}

\* the nodes of the runs with duplicates, and those of the runs with
\* pairwise distinct keys
CoreNodes == {n \in Nodes : KeyOf(n) <= CoreKeys}
KeyNodes == 1 .. MaxKey

\* the runs of bounded length count their calls
Tick(max) == steps < max /\ steps' = steps + 1

Next ==
  \/ \E n \in CoreNodes : Insert(n) /\ UNCHANGED <<steps, taken>>
  \/ \E n \in CoreNodes : Erase(n) /\ UNCHANGED <<steps, taken>>
  \/ Prune /\ UNCHANGED <<steps, taken>>

Spec == Init /\ [][Next]_vars

\* runs of at most MaxMoveOps calls that also move values between nodes
NextMove ==
  \/ \E n \in CoreNodes : Tick(MaxMoveOps) /\ UNCHANGED taken /\ Insert(n)
  \/ \E n \in CoreNodes : Tick(MaxMoveOps) /\ UNCHANGED taken /\ Erase(n)
  \/ \E n, m \in CoreNodes : Tick(MaxMoveOps) /\ UNCHANGED taken /\ Relocate(n, m)
  \/ \E a, b \in CoreNodes : Tick(MaxMoveOps) /\ UNCHANGED taken /\ Swap(a, b)

SpecMove == Init /\ [][NextMove]_vars

\* runs of at most MaxOps calls over pairwise distinct keys
NextTree ==
  \/ \E n \in KeyNodes : Tick(MaxOps) /\ UNCHANGED taken /\ Insert(n)
  \/ \E n \in KeyNodes : Tick(MaxOps) /\ UNCHANGED taken /\ Erase(n)
  \/ Tick(MaxOps) /\ UNCHANGED taken /\ Prune

SpecTree == Init /\ [][NextTree]_vars

\* runs that only insert pairwise distinct keys
NextIns == \E n \in KeyNodes : Insert(n) /\ UNCHANGED <<steps, taken>>

SpecIns == Init /\ [][NextIns]_vars

\* runs of at most MaxPathOps calls over pairwise distinct keys that record
\* the branch of every erase
NextPath ==
  \/ \E n \in KeyNodes : Tick(MaxPathOps) /\ Insert(n) /\ taken' = NoPath
  \/ \E n \in KeyNodes : Tick(MaxPathOps) /\ Erase(n) /\ taken' = erasePath(heap, n)

SpecPath == Init /\ [][NextPath]_vars

\* swap of any two distinct nodes, the first of them linked; the keys
\* travel with the values, so the run ends with the exchange
SwapAny(a, b) ==
  /\ ~fault
  /\ a \in live
  /\ b \in Nodes \ {a}
  /\ Commit(swap(Now, a, b))
  /\ op' = [name |-> "swap", node |-> a, peer |-> b, tag |-> tagOf(heap, a), dir |-> 0,
            rt |-> FALSE, rbPre |-> RBValid(heap), keysPre |-> TreeKeys(heap)]
  /\ live' = live

NextSwap ==
  \/ \E n \in CoreNodes : op.name # "swap" /\ Tick(MaxMoveOps) /\ UNCHANGED taken /\ Insert(n)
  \/ \E n \in CoreNodes : op.name # "swap" /\ Tick(MaxMoveOps) /\ UNCHANGED taken /\ Erase(n)
  \/ \E a, b \in CoreNodes : op.name # "swap" /\ Tick(MaxMoveOps) /\ UNCHANGED taken /\ SwapAny(a, b)

SpecSwap == Init /\ [][NextSwap]_vars

\* the elements each list is meant to hold, front to back, kept beside the
\* links: what a double-ended queue does on each call
Pushed(name, q, n) == IF name = "pushFront" THEN <<n>> \o q ELSE Append(q, n)
Front(q) == IF q = <<>> THEN NULL ELSE q[1]
Back(q) == IF q = <<>> THEN NULL ELSE q[Len(q)]
Popped(name, q) == IF name = "popFront" THEN Front(q) ELSE Back(q)
Rest(name, q) ==
  IF q = <<>> THEN q
  ELSE IF name = "popFront" THEN Tail(q) ELSE SubSeq(q, 1, Len(q) - 1)
Held(c, n) == \E l \in Sentinels : n \in SeqSet(c[l])
contentPush(c, name, l, n) == IF Held(c, n) THEN c ELSE [c EXCEPT ![l] = Pushed(name, c[l], n)]
contentDrop(c, n) == [l \in Sentinels |-> SelectSeq(c[l], LAMBDA m : m # n)]
ExchangeSeq(q, a, b) == [i \in 1 .. Len(q) |-> IF q[i] = a THEN b ELSE IF q[i] = b THEN a ELSE q[i]]
contentSwap(c, a, b) == [l \in Sentinels |-> ExchangeSeq(c[l], a, b)]
Reverse(q) == [i \in 1 .. Len(q) |-> q[Len(q) + 1 - i]]
\* q with n put before (after) the element cur; at the back (front) when
\* cur is the end cursor
RECURSIVE PutBefore(_, _, _)
PutBefore(q, cur, n) ==
  IF q = <<>> THEN <<n>>
  ELSE IF Head(q) = cur THEN <<n>> \o q
  ELSE <<Head(q)>> \o PutBefore(Tail(q), cur, n)
PutAfter(q, cur, n) == Reverse(PutBefore(Reverse(q), cur, n))
PutAtCursor(name, q, cur, n) == IF name = "insertForward" THEN PutBefore(q, cur, n) ELSE PutAfter(q, cur, n)
contentInsert(c, name, l, cur, n) == IF Held(c, n) THEN c ELSE [c EXCEPT ![l] = PutAtCursor(name, c[l], cur, n)]
contentPop(c, name, l) == [c EXCEPT ![l] = Rest(name, c[l])]

\* the calls of the list test: pushes and pops on either list
TreeIdle == UNCHANGED <<heap, fault, live, op, steps, taken>>

PushFront(l, n) ==
  /\ ~lists.fault
  /\ lists' = pushFront(lists, l, n).st
  /\ lop' = [name |-> "pushFront", list |-> l, node |-> n, ok |-> pushFront(lists, l, n).ok,
             at |-> NULL, ret |-> NULL, content |-> contentPush(lop.content, "pushFront", l, n)]
  /\ TreeIdle

PushBack(l, n) ==
  /\ ~lists.fault
  /\ lists' = pushBack(lists, l, n).st
  /\ lop' = [name |-> "pushBack", list |-> l, node |-> n, ok |-> pushBack(lists, l, n).ok,
             at |-> NULL, ret |-> NULL, content |-> contentPush(lop.content, "pushBack", l, n)]
  /\ TreeIdle

PopFront(l) ==
  /\ ~lists.fault
  /\ lists' = popFront(lists, l).st
  /\ lop' = [name |-> "popFront", list |-> l, node |-> popFront(lists, l).node,
             ok |-> popFront(lists, l).node # NULL,
             at |-> NULL, ret |-> NULL, content |-> contentPop(lop.content, "popFront", l)]
  /\ TreeIdle

PopBack(l) ==
  /\ ~lists.fault
  /\ lists' = popBack(lists, l).st
  /\ lop' = [name |-> "popBack", list |-> l, node |-> popBack(lists, l).node,
             ok |-> popBack(lists, l).node # NULL,
             at |-> NULL, ret |-> NULL, content |-> contentPop(lop.content, "popBack", l)]
  /\ TreeIdle

\* the object that embeds node n goes out of scope
Destroy(n) ==
  /\ ~lists.fault
  /\ lists' = listNodeDestroy(lists, n)
  /\ lop' = [name |-> "destroy", list |-> NULL, node |-> n, ok |-> TRUE,
             at |-> NULL, ret |-> NULL, content |-> contentDrop(lop.content, n)]
  /\ TreeIdle

\* a.swap(b) on the nodes of two distinct objects
ListSwap(a, b) ==
  /\ ~lists.fault
  /\ a # b
  /\ lists' = listNodeSwap(lists, a, b)
  /\ lop' = [name |-> "swap", list |-> b, node |-> a, ok |-> TRUE,
             at |-> NULL, ret |-> NULL, content |-> contentSwap(lop.content, a, b)]
  /\ TreeIdle

\* insert at a forward or backward iterator of the list l
InsertForward(l, cur, n) ==
  /\ ~lists.fault
  /\ cur \in Cursors(lists, l)
  /\ lists' = listInsertForward(lists, l, iterator(l, cur), n).st
  /\ lop' = [name |-> "insertForward", list |-> l, node |-> n,
             ok |-> listInsertForward(lists, l, iterator(l, cur), n).ok,
             at |-> cur, ret |-> NULL,
             content |-> contentInsert(lop.content, "insertForward", l, cur, n)]
  /\ TreeIdle

InsertBackward(l, cur, n) ==
  /\ ~lists.fault
  /\ cur \in Cursors(lists, l)
  /\ lists' = listInsertBackward(lists, l, iterator(l, cur), n).st
  /\ lop' = [name |-> "insertBackward", list |-> l, node |-> n,
             ok |-> listInsertBackward(lists, l, iterator(l, cur), n).ok,
             at |-> cur, ret |-> NULL,
             content |-> contentInsert(lop.content, "insertBackward", l, cur, n)]
  /\ TreeIdle

\* erase at a forward or backward iterator of the list l
EraseForward(l, cur) ==
  /\ ~lists.fault
  /\ cur \in Cursors(lists, l)
  /\ lists' = listEraseForward(lists, l, iterator(l, cur)).st
  /\ lop' = [name |-> "eraseForward", list |-> l, node |-> cur, ok |-> cur # NULL,
             at |-> cur, ret |-> listEraseForward(lists, l, iterator(l, cur)).it.current,
             content |-> contentDrop(lop.content, cur)]
  /\ TreeIdle

EraseBackward(l, cur) ==
  /\ ~lists.fault
  /\ cur \in Cursors(lists, l)
  /\ lists' = listEraseBackward(lists, l, iterator(l, cur)).st
  /\ lop' = [name |-> "eraseBackward", list |-> l, node |-> cur, ok |-> cur # NULL,
             at |-> cur, ret |-> listEraseBackward(lists, l, iterator(l, cur)).it.current,
             content |-> contentDrop(lop.content, cur)]
  /\ TreeIdle

NextList ==
  \/ \E l \in Sentinels, n \in ListNodes : PushFront(l, n)
  \/ \E l \in Sentinels, n \in ListNodes : PushBack(l, n)
  \/ \E l \in Sentinels : PopFront(l)
  \/ \E l \in Sentinels : PopBack(l)
  \/ \E n \in ListNodes : Destroy(n)
  \/ \E l \in Sentinels, c \in ListNodes \cup {NULL}, n \in ListNodes : InsertForward(l, c, n)
  \/ \E l \in Sentinels, c \in ListNodes \cup {NULL}, n \in ListNodes : InsertBackward(l, c, n)
  \/ \E l \in Sentinels, c \in ListNodes \cup {NULL} : EraseForward(l, c)
  \/ \E l \in Sentinels, c \in ListNodes \cup {NULL} : EraseBackward(l, c)

SpecList == Init /\ [][NextList]_vars

\* the same calls, and one exchange of two nodes at the end of the run
NextListSwap ==
  \/ lop.name # "swap" /\ NextList
  \/ \E a, b \in ListNodes : lop.name # "swap" /\ ListSwap(a, b)

SpecListSwap == Init /\ [][NextListSwap]_vars

\* =====================================================================
\* Properties
\* =====================================================================
StrictlyIncreasing(q) == \A i \in 1 .. Len(q) - 1 : q[i] < q[i + 1]
LiveKeys == {KeyOf(n) : n \in live}

\* C1: after any sequence of insert and erase calls the positions reachable
\* from the sentinel satisfy the three red-black rules (black root, no red
\* position with a red child, equal black height on every path).
C1_RedBlackRules == RBValid(heap)

\* C2: after any sequence of insert and erase calls the in-order traversal
\* visits strictly increasing keys, and the keys visited are exactly the keys
\* that have an inserted, not yet erased value.
C2_OrderAndKeySet ==
  /\ StrictlyIncreasing(KeySeq(heap))
  /\ SeqSet(KeySeq(heap)) = LiveKeys

\* every node a traversal can come across: the positions, the members of
\* their queues, and the sentinel
Members(h) == UNION {SeqSet(Queue(h, n)) : n \in Positions(h) \ {NULL}}
Reachable(h) == (Positions(h) \ {NULL}) \cup Members(h) \cup {SENT}
RefersTo(h, m, n) == \E i \in 1 .. 3 : h[m].p[i] = n

\* every position holds the parent field of its children, is held by the
\* field referred() returns, and every rbfMulext position is the mulext of
\* its queue front and back; the root hangs below the sentinel
PositionLinked(h, p) ==
  /\ leftOf(h, p) # NULL => parentOf(h, leftOf(h, p)) = p
  /\ rightOf(h, p) # NULL => parentOf(h, rightOf(h, p)) = p
  /\ parentOf(h, p) # NULL
  /\ (tagOf(h, parentOf(h, p)) = rbfMulext => h[parentOf(h, p)].p[fFront] # NULL)
  /\ Get(Mem(h), extreferred(Mem(h), p)) = p
  /\ (tagOf(h, p) = rbfMulext =>
        /\ h[h[p].p[fFront]].p[fMulext] = p
        /\ h[h[p].p[fBack]].p[fMulext] = p)

CrossReferenced(h) ==
  /\ NULL \notin Positions(h)
  /\ \A p \in Positions(h) : PositionLinked(h, p)
  /\ (rootOf(h) # NULL => parentOf(h, rootOf(h)) = SENT)

\* C3: after insert, erase, swap and relocate the cross-references of every
\* position reachable from the sentinel are consistent: children name it as
\* parent, the field referred() returns holds it, the root's parent is the
\* sentinel, and the queue front and back of a rbfMulext name it as mulext.
C3_CrossReferences == CrossReferenced(heap)

\* C4: every insert of a run of pairwise distinct keys completes without a
\* null dereference, and the tree then satisfies the red-black rules and
\* traverses in order to exactly the inserted keys, ascending.
C4_DistinctInserts ==
  /\ ~fault
  /\ RBValid(heap)
  /\ StrictlyIncreasing(KeySeq(heap))
  /\ TreeKeys(heap) = LiveKeys

\* the position an insert with direction 0 of the key of node n goes to
HeadOf(h, n) == Lookup(h, KeyOf(n))[1]
DupInsert == op'.name = "insert" /\ op'.dir = 0

\* C5: an insert with direction 0 completes and puts the new value at the
\* front of the position's queue, before the values inserted earlier, so the
\* queue enumerates front to back in most-recently-inserted-first order.
C5_Step ==
  DupInsert =>
    /\ ~fault'
    /\ Queue(heap', HeadOf(heap, op'.node))
         = <<op'.node>> \o Queue(heap, HeadOf(heap, op'.node))

C5_QueueOrder == [][C5_Step]_vars

\* what erase of the member op'.node must leave of a group of two or more
EraseMemberPost(head) ==
  /\ ~fault'
  /\ tagOf(heap', head) = rbfMulext
  /\ Queue(heap', head) = SelectSeq(Queue(heap, head), LAMBDA m : m # op'.node)
  /\ heap'[Queue(heap', head)[1]].fl \div 4 % 2 = 1
  /\ heap'[Queue(heap', head)[Len(Queue(heap', head))]].fl \div 8 % 2 = 1
  /\ leftOf(heap', head) = leftOf(heap, head)
  /\ rightOf(heap', head) = rightOf(heap, head)
  /\ parentOf(heap', head) = parentOf(heap, head)
  /\ isRed(heap', head) = isRed(heap, head)
  /\ \A c \in {leftOf(heap, head), rightOf(heap, head)} \ {NULL} :
        heap'[c] = heap[c]

\* C6: a group grows to two or more members by inserts with direction 0, and
\* erase of any member of such a group leaves the position a rbfMulext whose
\* queue is the former queue without that member, with the front and back
\* flags on its ends, and leaves the position's children, parent and colour
\* and every field of its children as they were.
C6_Step ==
  /\ (DupInsert /\ op'.tag = rbfMulext) => ~fault'
  /\ (op'.name = "erase" /\ op'.tag = rbfMulint
       /\ Len(Queue(heap, heap[op'.node].p[fMulext])) >= 2)
      => EraseMemberPost(heap[op'.node].p[fMulext])

C7_RoundTrip ==
  (op.name = "erase" /\ op.rt) =>
     /\ ~fault
     /\ heap[op.node] = EmptyCell
     /\ TreeKeys(heap) = op.keysPre
     /\ (op.rbPre => RBValid(heap))

\* the nodes that carry the key inserted several times
DupNodes == {n \in CoreNodes : KeyOf(n) = DupKey}

\* C8: every insert of a further value of a key completes, and when all
\* but one of the values of the key are erased again the key's position is
\* the remaining node, tagged rbfSingle, and the erased nodes are rbfOrphan.
C8_GroupCollapse ==
  /\ (op.name = "insert" /\ op.dir = 0) => ~fault
  /\ \A n \in DupNodes :
       (DupNodes \cap live = {n} /\ ~fault) =>
          /\ n \in Positions(heap)
          /\ tagOf(heap, n) = rbfSingle
          /\ \A m \in DupNodes \ {n} : heap[m] = EmptyCell

\* C9: when erase returns, the erased node is tagged Orphan, its three link
\* fields are empty, and no node reachable from the sentinel refers to it.
C9_EraseOrphans ==
  (op.name = "erase" /\ ~fault) =>
     /\ heap[op.node] = EmptyCell
     /\ \A m \in Reachable(heap) : ~RefersTo(heap, m, op.node)

\* C10: pruneAll empties the root handle and leaves every node that was
\* reachable before the call tagged Orphan with empty link fields.
C10_PruneStep ==
  (op'.name = "prune" /\ ~fault') =>
     /\ rootOf(heap') = NULL
     /\ \A n \in Reachable(heap) : heap'[n] = EmptyCell

C10_PruneOrphansAll == [][C10_PruneStep]_vars

\* the iterations the walk of sentinelPrune makes on the tree as it is
PruneVisits ==
  IF rootOf(heap) = NULL THEN 0
  ELSE pruneIterations(Put(Now, <<SENT, fRoot>>, NULL), rootOf(heap), 4 * Fuel)

\* C11: on a tree with consistent links pruneAll terminates: the walk comes
\* back to the sentinel and stops, after at most three visits per position.
C11_Step ==
  (op'.name = "prune" /\ CrossReferenced(heap)) =>
     /\ ~fault'
     /\ PruneVisits >= 0
     /\ PruneVisits <= 3 * Cardinality(Positions(heap))

C11_PruneTerminates == [][C11_Step]_vars

C11_Witness == op.name = "prune" /\ ~fault /\ Cardinality(op.keysPre) >= 4

\* the address x as it reads once the nodes a and b have exchanged places
Exchange(x, a, b) == IF x = a THEN b ELSE IF x = b THEN a ELSE x
ExchangeCell(c, a, b) == [fl |-> c.fl, p |-> [i \in DOMAIN c.p |-> Exchange(c.p[i], a, b)]]
Exchanged(h, a, b) == [c \in Cells |-> ExchangeCell(h[Exchange(c, a, b)], a, b)]
SameButLocal(h, g) == \A c \in Cells \ {TMP} : h[c] = g[c]
NoLocalRef(h) == \A c \in Cells \ {TMP} : \A i \in DOMAIN h[c].p : h[c].p[i] # TMP

\* C12: swap(a, b) of two distinct nodes leaves a with the tag, colour and
\* links b had and b with those a had, every reference to one of them now
\* refers to the other, and every other field is unchanged.
C12_Step ==
  (op'.name = "swap" /\ CrossReferenced(heap)) =>
     /\ ~fault'
     /\ SameButLocal(heap', Exchanged(heap, op'.node, op'.peer))
     /\ NoLocalRef(heap')
C12_SwapExchanges == [][C12_Step]_vars

\* the heap once every reference to node n refers to m, m holds what n held
\* and n is an orphan
Redirect(x, n, m) == IF x = n THEN m ELSE x
RedirectCell(c, n, m) == [fl |-> c.fl, p |-> [i \in DOMAIN c.p |-> Redirect(c.p[i], n, m)]]
Relocated(h, n, m) == [c \in Cells |-> IF c = n THEN EmptyCell ELSE RedirectCell(h[IF c = m THEN n ELSE c], n, m)]

\* C13: relocate(node, placeholder) of a linked node of any tag gives the
\* placeholder the tag, colour and links of the node, redirects every
\* reference to the node (child slot or root handle, parent fields of the
\* children, neighbours, queue front/back, groupHead of front and back) to
\* the placeholder, and leaves the node Orphan and referenced by no one.
C13_Step ==
  (op'.name = "relocate" /\ CrossReferenced(heap)) =>
     /\ ~fault'
     /\ heap' = Relocated(heap, op'.node, op'.peer)
C13_RelocateRedirects == [][C13_Step]_vars

\* C14: insert(target, 0) with target tagged Single turns target into a
\* GroupHead of the same colour and parent whose queue front and back are the
\* new node, makes the new node a GroupMember flagged front and back whose
\* previous/next are target's former left/right and whose groupHead is
\* target, and changes no other node (no rebalancing).
C14_Step ==
  (DupInsert /\ op'.tag = rbfSingle) =>
     /\ ~fault'
     /\ tagOf(heap', op'.peer) = rbfMulext
     /\ HasBit4(heap'[op'.peer].fl) = HasBit4(heap[op'.peer].fl)
     /\ heap'[op'.peer].p = [heap[op'.peer].p EXCEPT ![fFront] = op'.node, ![fBack] = op'.node]
     /\ heap'[op'.node].fl = rbfMulint + rbfMulintFront + rbfMulintBack
     /\ heap'[op'.node].p[fMulext] = op'.peer
     /\ heap'[op'.node].p[fPrevious] = heap[op'.peer].p[fLeft]
     /\ heap'[op'.node].p[fNext] = heap[op'.peer].p[fRight]
     /\ \A c \in Cells \ {op'.peer, op'.node} : heap'[c] = heap[c]
C14_PromoteSingle == [][C14_Step]_vars
C14_Witness ==
  /\ op.name = "insert" /\ op.dir = 0 /\ op.tag = rbfSingle /\ ~fault
  /\ heap[op.node].p[fPrevious] # NULL
  /\ heap[op.node].p[fNext] # NULL
  /\ ~HasBit4(heap[op.peer].fl)

\* what insert(target, 0) must leave of a group whose front was f
FrontInsertPost(t, n, f) ==
  /\ ~fault'
  /\ heap'[t].p[fFront] = n
  /\ heap'[n].fl = rbfMulint + rbfMulintFront
  /\ heap'[n].p[fMulext] = t
  /\ heap'[n].p[fNext] = f
  /\ heap'[n].p[fPrevious] = heap[f].p[fPrevious]
  /\ ~HasBit4(heap'[f].fl)
  /\ heap'[f].p[fPrevious] = n
  /\ heap'[t].p[fBack] = heap[t].p[fBack]
  /\ rightOf(heap', t) = rightOf(heap, t)
  /\ leftOf(heap', t) = leftOf(heap, t)
  /\ heap'[t].fl = heap[t].fl
  /\ heap'[t].p[fParent] = heap[t].p[fParent]

\* C15: insert(target, 0) with target already a GroupHead makes the new node
\* the queue front: queueFront of target is the new node, which carries the
\* front flag and has the old front as next; the old front loses the front
\* flag and has the new node as previous; the new node's previous takes over
\* the left-child reference; queue back, right child, colour and parent of
\* the position are unchanged.
C15_Step ==
  (DupInsert /\ op'.tag = rbfMulext) =>
     FrontInsertPost(op'.peer, op'.node, heap[op'.peer].p[fFront])
C15_FrontInsert == [][C15_Step]_vars

\* what erase of the head n of the queue q (two or more members) must leave
EraseHeadPost(n, q, b, nb) ==
  /\ ~fault'
  /\ tagOf(heap', b) = rbfMulext
  /\ HasBit4(heap'[b].fl) = HasBit4(heap[n].fl)
  /\ parentOf(heap', b) = parentOf(heap, n)
  /\ leftOf(heap', b) = leftOf(heap, n)
  /\ rightOf(heap', b) = rightOf(heap, n)
  /\ Queue(heap', b) = SubSeq(q, 1, Len(q) - 1)
  /\ HasBit8(heap'[nb].fl)

\* C16: a group grows to two or more members by inserts with direction 0, and
\* erase of the GroupHead of such a group puts the queue-back member in its
\* place as the new GroupHead with the parent, colour and children of the
\* erased head; the member before it becomes the back (back flag, right-child
\* reference), and the remaining members keep their order.
C16_Step ==
  /\ (DupInsert /\ op'.tag = rbfMulext) => ~fault'
  /\ (op'.name = "erase" /\ op'.tag = rbfMulext /\ Len(Queue(heap, op'.node)) >= 2)
      => EraseHeadPost(op'.node, Queue(heap, op'.node),
                       Queue(heap, op'.node)[Len(Queue(heap, op'.node))],
                       Queue(heap, op'.node)[Len(Queue(heap, op'.node)) - 1])
EraseHeadOfOnePost(n, m) ==
  /\ ~fault'
  /\ tagOf(heap', m) = rbfSingle
  /\ HasBit4(heap'[m].fl) = HasBit4(heap[n].fl)
  /\ heap'[m].p[fParent] = heap[n].p[fParent]
  /\ heap'[m].p[fLeft] = leftOf(heap, n)
  /\ heap'[m].p[fRight] = rightOf(heap, n)
  /\ \A c \in {leftOf(heap, n), rightOf(heap, n)} \ {NULL} : parentOf(heap', c) = m
  /\ (parentOf(heap, n) = SENT => rootOf(heap') = m)
  /\ (parentOf(heap, n) # SENT /\ leftOf(heap, parentOf(heap, n)) = n
        => leftOf(heap', parentOf(heap, n)) = m)
  /\ (parentOf(heap, n) # SENT /\ rightOf(heap, parentOf(heap, n)) = n
        => rightOf(heap', parentOf(heap, n)) = m)

\* C17: erase of a GroupHead whose group holds exactly one member puts that
\* member in its place as a Single node with the erased head's parent,
\* colour, left child and right child; the parent's child slot (or the root
\* handle) and the parent fields of both children refer to it.  The head is
\* a position of a tree whose cross-references are consistent.
C17_Step ==
  (op'.name = "erase" /\ op'.tag = rbfMulext /\ CrossReferenced(heap)
     /\ op'.node \in Positions(heap) /\ Len(Queue(heap, op'.node)) = 1)
    => EraseHeadOfOnePost(op'.node, heap[op'.node].p[fBack])
C17_EraseHeadOfOne == [][C17_Step]_vars
C17_Witness ==
  /\ op.name = "erase" /\ op.tag = rbfMulext /\ ~fault
  /\ \E m \in DupNodes \cap Positions(heap) :
       /\ tagOf(heap, m) = rbfSingle
       /\ leftOf(heap, m) # NULL
       /\ rightOf(heap, m) # NULL

\* the node n is a member that is front and back of its queue at once
SoleMember(h, n) == tagOf(h, n) = rbfMulint /\ HasBit4(h[n].fl) /\ HasBit8(h[n].fl)

\* C18: erase of a GroupMember that is the sole member of its group demotes
\* the owning GroupHead to a Single node whose left and right children are
\* the member's former previous and next; the head's parent is unchanged.
C18_Step ==
  (op'.name = "erase" /\ SoleMember(heap, op'.node)) =>
     /\ ~fault'
     /\ tagOf(heap', heap[op'.node].p[fMulext]) = rbfSingle
     /\ heap'[heap[op'.node].p[fMulext]].p[fLeft] = heap[op'.node].p[fPrevious]
     /\ heap'[heap[op'.node].p[fMulext]].p[fRight] = heap[op'.node].p[fNext]
     /\ heap'[heap[op'.node].p[fMulext]].p[fParent] = heap[heap[op'.node].p[fMulext]].p[fParent]
     /\ heap'[op'.node] = EmptyCell
C18_DemoteHead == [][C18_Step]_vars
C18_Witness ==
  /\ op.name = "erase" /\ op.tag = rbfMulint /\ ~fault
  /\ \E m \in DupNodes \cap Positions(heap) :
       /\ tagOf(heap, m) = rbfSingle
       /\ leftOf(heap, m) # NULL
       /\ rightOf(heap, m) # NULL
       /\ heap[m].p[fLeft] # heap[m].p[fRight]

\* the values of the key of position p that are not the position itself
GroupOf(p) == {m \in live : KeyOf(m) = KeyOf(p) /\ m # p}
NoRepeat(q) == \A i, j \in 1 .. Len(q) : q[i] = q[j] => i = j
\* the queue q of position p is well formed
GroupWellFormed(h, p, q) ==
  /\ Len(q) >= 1
  /\ q[1] = h[p].p[fFront]
  /\ q[Len(q)] = h[p].p[fBack]
  /\ NoRepeat(q)
  /\ SeqSet(q) = GroupOf(p)
  /\ \A i \in 1 .. Len(q) :
       /\ tagOf(h, q[i]) = rbfMulint
       /\ HasBit4(h[q[i]].fl) = (i = 1)
       /\ HasBit8(h[q[i]].fl) = (i = Len(q))
GroupsWellFormed(h) ==
  \A p \in Positions(h) \ {NULL} :
    IF tagOf(h, p) = rbfMulext THEN GroupWellFormed(h, p, Queue(h, p))
    ELSE GroupOf(p) = {}

\* C19: after any sequence of insert and erase, every call has returned and
\* in every duplicate group exactly one member carries the front flag and
\* exactly one the back flag, queueFront and queueBack of the GroupHead refer
\* to them, and the next chain from the front reaches the back after
\* visiting every member of the group exactly once.
C19_GroupInvariant == ~fault /\ GroupsWellFormed(heap)

\* the nodes of the list with sentinel l, front to back, by the next fields
RECURSIVE ListFrom(_, _, _, _)
ListFrom(s, l, c, fuel) ==
  IF c = l \/ c = NULL \/ fuel = 0 THEN <<>>
  ELSE <<c>> \o ListFrom(s, l, s.lk[c].next, fuel - 1)
ListSeq(s, l) == ListFrom(s, l, s.lk[l].next, MaxListNodes + 1)
\* the same list back to front, by the previous fields
RECURSIVE ListBackFrom(_, _, _, _)
ListBackFrom(s, l, c, fuel) ==
  IF c = l \/ c = NULL \/ fuel = 0 THEN <<>>
  ELSE <<c>> \o ListBackFrom(s, l, s.lk[c].previous, fuel - 1)
ListRev(s, l) == ListBackFrom(s, l, s.lk[l].previous, MaxListNodes + 1)
Linked(s, n) == \E l \in Sentinels : n \in SeqSet(ListSeq(s, l))

\* C20: pushFront and pushBack return false and leave both lists unchanged
\* when the node is already linked into a list (this one or the other); they
\* return true and link the node at the front, respectively the back, of the
\* list exactly when the node is an orphan.
C20_Step ==
  (lop'.name \in {"pushFront", "pushBack"}) =>
     /\ ~lists'.fault
     /\ lop'.ok = ~Linked(lists, lop'.node)
     /\ (~lop'.ok => lists' = lists)
     /\ (lop'.ok =>
           /\ ListSeq(lists', lop'.list) = Pushed(lop'.name, ListSeq(lists, lop'.list), lop'.node)
           /\ ListRev(lists', lop'.list) = Reverse(ListSeq(lists', lop'.list))
           /\ \A l \in Sentinels \ {lop'.list} :
                /\ ListSeq(lists', l) = ListSeq(lists, l)
                /\ ListRev(lists', l) = ListRev(lists, l))
C20_PushChecksOrphan == [][C20_Step]_vars
C20_Witness ==
  /\ lop.name = "pushFront" /\ ~lop.ok
  /\ lop.node \in SeqSet(ListSeq(lists, ListB))
  /\ lop.list = ListA
  /\ Len(ListSeq(lists, ListA)) >= 1

\* forward and backward chains of every list agree
ListsAgree(s) == \A l \in Sentinels : ListRev(s, l) = Reverse(ListSeq(s, l))

\* C21: after any sequence of pushes and pops, popFront removes and returns
\* the first element of the list and popBack the last one, the returned
\* node is an orphan afterwards, both return nullptr and change nothing when
\* the list is empty, and the other elements and the other list stay.
C21_Step ==
  (lop'.name \in {"popFront", "popBack"}) =>
     /\ ~lists'.fault
     /\ lop'.node = Popped(lop'.name, ListSeq(lists, lop'.list))
     /\ ListSeq(lists', lop'.list) = Rest(lop'.name, ListSeq(lists, lop'.list))
     /\ ListsAgree(lists')
     /\ (lop'.node = NULL => lists' = lists)
     /\ (lop'.node # NULL => isOrphanNode(lists', lop'.node) /\ ~Linked(lists', lop'.node))
     /\ \A l \in Sentinels \ {lop'.list} : ListSeq(lists', l) = ListSeq(lists, l)
C21_Deque == [][C21_Step]_vars
C21_Witness ==
  /\ lop.name = "popBack" /\ lop.node # NULL
  /\ Len(ListSeq(lists, lop.list)) >= 2
  /\ Len(ListSeq(lists, ListB)) >= 1 /\ lop.list = ListA

ForwardVisit(l) == forwardLoop(lists, begin(lists, l), MaxListNodes + 2)
BackwardVisit(l) == backwardLoop(lists, rbegin(lists, l), MaxListNodes + 2)

\* C22: forward iteration from begin() visits every element of the list
\* exactly once, front to back, and then equals end(); backward iteration
\* from rbegin() visits them back to front and then equals rend(); for an
\* empty list begin() = end() and rbegin() = rend(); the sentinel is never
\* yielded.
C22_Iteration ==
  \A l \in Sentinels :
    /\ ForwardVisit(l) = lop.content[l]
    /\ BackwardVisit(l) = Reverse(lop.content[l])
    /\ SeqSet(ForwardVisit(l)) \cup SeqSet(BackwardVisit(l)) \subseteq ListNodes
    /\ (lop.content[l] = <<>> =>
          /\ equals(l, begin(lists, l).current, l, end(lists, l).current)
          /\ equals(l, rbegin(lists, l).current, l, rend(lists, l).current))
C22_Witness ==
  /\ Len(lop.content[ListA]) >= 3
  /\ Len(lop.content[ListB]) = 0
  /\ ForwardVisit(ListA) = lop.content[ListA]
  /\ lop.name = "popBack" /\ lop.ok

Without(q, n) == SelectSeq(q, LAMBDA m : m # n)
NoListRef(s, n) == \A c \in ListCells : s.lk[c].previous # n /\ s.lk[c].next # n

\* C23: destroying a node that is linked into a list unlinks it: each list
\* afterwards holds exactly the surviving elements in their former order,
\* forward and backward chains agree, and no list node refers to the
\* destroyed node.
C23_Step ==
  (lop'.name = "destroy") =>
     /\ ~lists'.fault
     /\ \A l \in Sentinels : ListSeq(lists', l) = Without(ListSeq(lists, l), lop'.node)
     /\ ListsAgree(lists')
     /\ NoListRef(lists', lop'.node)
C23_DestroyUnlinks == [][C23_Step]_vars
C23_Witness ==
  /\ lop.name = "destroy"
  /\ \E l \in Sentinels :
       /\ Len(ListSeq(lists, l)) >= 2
       /\ \E i \in 1 .. Len(ListSeq(lists, l)) - 1 :
            ListSeq(lists, l)[i] < lop.node /\ lop.node < ListSeq(lists, l)[i + 1]

\* C24: a.swap(b) does not break the lists: for any two distinct nodes,
\* whether b is an orphan, in another list or in the same list as a
\* (directly next to a included), a occupies b's former place and b
\* occupies a's, every other element keeps its place, and forward and
\* backward iteration agree.
C24_Step ==
  (lop'.name = "swap" /\ ListsAgree(lists)) =>
     /\ ~lists'.fault
     /\ \A l \in Sentinels :
          ListSeq(lists', l) = ExchangeSeq(ListSeq(lists, l), lop'.node, lop'.list)
     /\ ListsAgree(lists')
C24_SwapKeepsLists == [][C24_Step]_vars

\* C25: insert(forwardIterator it, obj) with obj an orphan links obj
\* immediately before the element of it, or at the back when it is end();
\* insert(backwardIterator it, obj) links obj immediately after the element
\* of it in list order, or at the front when it is rend(); the element of
\* the iterator and all other elements keep their relative order.
C25_Step ==
  (lop'.name \in {"insertForward", "insertBackward"} /\ ~Linked(lists, lop'.node)) =>
     /\ ~lists'.fault
     /\ lop'.ok
     /\ ListSeq(lists', lop'.list)
          = PutAtCursor(lop'.name, ListSeq(lists, lop'.list), lop'.at, lop'.node)
     /\ ListsAgree(lists')
     /\ (lop'.at # NULL => lop'.at \in Cursors(lists', lop'.list))
     /\ \A l \in Sentinels \ {lop'.list} : ListSeq(lists', l) = ListSeq(lists, l)
C25_InsertAtIterator == [][C25_Step]_vars
C25_Witness ==
  /\ lop.name = "insertBackward" /\ lop.ok /\ lop.at # NULL
  /\ Len(ListSeq(lists, lop.list)) >= 3
  /\ ListSeq(lists, lop.list)[2] = lop.node
  /\ ListSeq(lists, lop.list)[1] = lop.at

Following(name, q, cur) ==
  LET i == CHOOSE j \in 1 .. Len(q) : q[j] = cur
  IN IF name = "eraseForward" THEN (IF i = Len(q) THEN NULL ELSE q[i + 1])
     ELSE (IF i = 1 THEN NULL ELSE q[i - 1])

\* C26: erase(it) unlinks the element of it, leaving it an orphan, and
\* returns an iterator to the element that followed it in the iterator's
\* direction, or the end iterator when there is none or when it was the end
\* iterator already; the remaining elements keep their order.
C26_Step ==
  (lop'.name \in {"eraseForward", "eraseBackward"}) =>
     /\ ~lists'.fault
     /\ (lop'.at = NULL => lop'.ret = NULL /\ lists' = lists)
     /\ (lop'.at # NULL =>
           /\ lop'.ret = Following(lop'.name, ListSeq(lists, lop'.list), lop'.at)
           /\ isOrphanNode(lists', lop'.at))
     /\ \A l \in Sentinels : ListSeq(lists', l) = Without(ListSeq(lists, l), lop'.at)
     /\ ListsAgree(lists')
C26_EraseAtIterator == [][C26_Step]_vars
C26_Witness ==
  /\ lop.name = "eraseForward" /\ lop.at # NULL /\ lop.ret # NULL
  /\ Len(ListSeq(lists, lop.list)) >= 2
  /\ ListSeq(lists, lop.list)[2] = lop.ret

\* the erase of a Single position out of a tree in which every inserted node
\* is a position, the keys are in order and the cross-references are
\* consistent
EraseFromLinked ==
  /\ op'.name = "erase" /\ ~fault'
  /\ op'.tag = rbfSingle
  /\ Positions(heap) = live
  /\ StrictlyIncreasing(KeySeq(heap))
  /\ CrossReferenced(heap)

\* C27: doubleBlackResolve never detaches or reorders positions: when erase
\* (its only caller) takes a Single position out of a well linked tree, every
\* other position is still reachable from the sentinel afterwards and the
\* in-order sequence of the positions is the one before without the erased
\* node; in particular the former red sibling stays in the tree when its
\* rotation is followed by the red-outer or red-inner rotation.
C27_Step == EraseFromLinked => InOrder(heap') = Without(InOrder(heap), op'.node)

C27_ResolveKeepsPositions == [][C27_Step]_vars

\* the erase of a Single position out of a tree that satisfies the red-black
\* rules and whose cross-references are consistent
EraseFromValid ==
  /\ op'.name = "erase"
  /\ op'.tag = rbfSingle
  /\ op'.node \in Positions(heap)
  /\ RBValid(heap) /\ CrossReferenced(heap)

SiblingsPresent(p) ==
  \A i \in 1 .. Len(p.deficit) :
    /\ p.deficit[i].sibling
    /\ (p.deficit[i].red => p.deficit[i].inner)

\* C28: in every iteration of doubleBlackResolve that an erase on a tree
\* satisfying the red-black rules reaches, the sibling of the deficit node is
\* present, in the red-sibling case the inner child of the sibling is present
\* too, and the call dereferences no absent node.
C28_Step == EraseFromValid => (SiblingsPresent(erasePath(heap, op'.node)) /\ ~fault')

EraseWithOneChild ==
  /\ EraseFromLinked
  /\ erasePath(heap, op'.node).branch = "child"

\* C29: whenever the erase of a Single node reaches the one-child branch
\* (after the exchange with the successor, if any) in a tree built by insert
\* and erase, the node is black and its only child is red, and the erase
\* leaves a tree that satisfies the red-black rules when it found one.
C29_Step ==
  EraseWithOneChild =>
    /\ erasePath(heap, op'.node).black
    /\ erasePath(heap, op'.node).childRed
    /\ (RBValid(heap) => RBValid(heap'))

C29_OneChildColours == [][C29_Step]_vars

\* the other child of the parent of p
UncleOf(h, p) ==
  IF leftOf(h, parentOf(h, p)) = p THEN rightOf(h, parentOf(h, p))
  ELSE leftOf(h, parentOf(h, p))

\* an insert below the red position p whose uncle is red too, in a tree that
\* satisfies the red-black rules; the grandparent hangs below a black
\* position or below the sentinel
InsertBelowRedRed(p) ==
  /\ op'.name = "insert" /\ op'.dir # 0 /\ op'.peer = p
  /\ RBValid(heap) /\ CrossReferenced(heap) /\ Positions(heap) = live
  /\ isRed(heap, p)
  /\ isRed(heap, UncleOf(heap, p))
  /\ ~isRed(heap, parentOf(heap, parentOf(heap, p)))

\* the tree after that insert when only the red-uncle step recolours: the
\* node is a red leaf below p, p and its uncle are black, and the grandparent
\* is red unless it is the root
Recoloured(h, n, p, dir) ==
  LET s == Mem(h)
      slot == IF dir < 0 THEN extleft(s, p) ELSE extright(s, p)
      s1 == SetFlags(Put(Put(s, slot, n), <<n, fParent>>, p), n, rbfSingle + rbfColorRed)
      s2 == flipColor(flipColor(s1, p), UncleOf(h, p))
  IN IF parentOf(h, p) = rootOf(h) THEN s2.h ELSE flipColor(s2, parentOf(h, p)).h

\* C30: doubleRedResolve changes the tree only while there is a red-red
\* violation: when the red-uncle step has promoted the node to a grandparent
\* that hangs below a black position or below the sentinel, the call returns
\* without a fault and the tree is the one before with the new red leaf, the
\* parent and the uncle blackened and the grandparent red (black when it is
\* the root); no rotation follows and the links of the sentinel are not read
\* as those of a grandparent.
C30_Step ==
  \A p \in Nodes :
    InsertBelowRedRed(p) =>
      /\ ~fault'
      /\ heap' = Recoloured(heap, op'.node, p, op'.dir)

C30_ResolveStopsAtBlack == [][C30_Step]_vars

\* the number of positions on the way from n up to the root, n included
RECURSIVE DepthOf(_, _, _)
DepthOf(h, n, fuel) ==
  IF n = NULL \/ fuel = 0 \/ tagOf(h, n) = rbfOrphan THEN 0
  ELSE 1 + DepthOf(h, parentOf(h, n), fuel - 1)

\* the memory when insert has hung the red node n below p (lines 571-578)
\* and calls doubleRedResolve
Hung(h, n, p, dir) ==
  LET slot == IF dir < 0 THEN extleft(Mem(h), p) ELSE extright(Mem(h), p)
  IN SetFlags(Put(Put(Mem(h), slot, n), <<n, fParent>>, p), n, rbfSingle + rbfColorRed)

\* the iterations of doubleRedResolve in the insert of op', and the depth at
\* which it starts
RedLoopBounded ==
  LET s == Hung(heap, op'.node, op'.peer, op'.dir)
  IN /\ doubleRedIterations(s, op'.node, Fuel) >= 0
     /\ 2 * doubleRedIterations(s, op'.node, Fuel) <= DepthOf(s.h, op'.node, Fuel)

\* the iterations of doubleBlackResolve in the erase of op', and the depth
\* at which it starts
BlackLoopBounded ==
  LET s == eraseSwapSuccessor(Now, op'.node)
  IN /\ doubleBlackIterations(s, op'.node, Fuel) >= 0
     /\ doubleBlackIterations(s, op'.node, Fuel) < DepthOf(s.h, op'.node, Fuel)

\* C31: on a tree with consistent links both rebalancing loops terminate:
\* every iteration of doubleRedResolve that goes on moves node to its
\* grandparent and every iteration of doubleBlackResolve that goes on moves
\* node to its parent, so the loop of an insert makes at most half as many
\* iterations as the new node is deep, and the loop of an erase fewer
\* iterations than the erased leaf is deep (never more than the tree is high).
C31_Step ==
  /\ (/\ op'.name = "insert" /\ op'.dir # 0
      /\ CrossReferenced(heap) /\ op'.peer \in Positions(heap) \cup {SENT}
      /\ isRed(heap, op'.peer)) => RedLoopBounded
  /\ (/\ op'.name = "erase" /\ op'.tag = rbfSingle
      /\ CrossReferenced(heap) /\ op'.node \in Positions(heap)
      /\ erasePath(heap, op'.node).branch = "leaf"
      /\ erasePath(heap, op'.node).black) => BlackLoopBounded

Hub == DupKey
HubLeft == DupKey - 1
HubRight == DupKey + 1
HubAbove == CoreKeys
HubQueues == {q \in {<<>>} \cup {<<m>> : m \in Nodes \ KeyNodes} \cup ((Nodes \ KeyNodes) \X (Nodes \ KeyNodes)) : Len(q) = Cardinality(SeqSet(q))}
Colours == {rbfColorRed, rbfColorBlack}

MemberCell(q, i, l, r) == [fl |-> rbfMulint + (IF i = 1 THEN rbfMulintFront ELSE 0) + (IF i = Len(q) THEN rbfMulintBack ELSE 0), p |-> <<Hub, IF i = 1 THEN l ELSE q[i - 1], IF i = Len(q) THEN r ELSE q[i + 1]>>]

HubCell(q, colour, up, l, r) == IF q = <<>> THEN [fl |-> rbfSingle + colour, p |-> <<up, l, r>>] ELSE [fl |-> rbfMulext + colour, p |-> <<up, q[Len(q)], q[1]>>]

HubHeap(q, colours, under, l, r) ==
  LET up == IF under THEN HubAbove ELSE SENT
  IN [c \in Cells |->
        IF c = Hub THEN HubCell(q, colours[1], up, l, r)
        ELSE IF c # NULL /\ c = l THEN [fl |-> rbfSingle + colours[2], p |-> <<Hub, NULL, NULL>>]
        ELSE IF c # NULL /\ c = r THEN [fl |-> rbfSingle + colours[3], p |-> <<Hub, NULL, NULL>>]
        ELSE IF \E i \in 1 .. Len(q) : q[i] = c
          THEN MemberCell(q, CHOOSE i \in 1 .. Len(q) : q[i] = c, l, r)
        ELSE IF under /\ c = HubAbove THEN [fl |-> rbfSingle + rbfColorBlack, p |-> <<SENT, Hub, NULL>>]
        ELSE IF c = SENT THEN [fl |-> rbfOrphan, p |-> <<NULL, IF under THEN HubAbove ELSE Hub, NULL>>]
        ELSE EmptyCell]

InitReferred ==
  /\ \E q \in HubQueues, colours \in [1 .. 3 -> Colours], under \in BOOLEAN,
        l \in {NULL, HubLeft}, r \in {NULL, HubRight} :
       /\ l # NULL \/ r # NULL
       /\ heap = HubHeap(q, colours, under, l, r)
       /\ live = ({Hub, l, r} \ {NULL}) \cup SeqSet(q)
                   \cup (IF under THEN {HubAbove} ELSE {})
  /\ fault = FALSE
  /\ op = [name |-> "init", node |-> NULL, ref |-> NoRef]
  /\ steps = 0
  /\ lists = list
  /\ lop = [name |-> "init", list |-> NULL, node |-> NULL, ok |-> FALSE, at |-> NULL, ret |-> NULL,
            content |-> [l \in Sentinels |-> <<>>]]
  /\ taken = NoPath

\* n -> extreferred() for an external node n of the tree
Referred(n) ==
  /\ n \in live
  /\ TypeOf(heap[n].fl) \in {rbfSingle, rbfMulext}
  /\ op' = [name |-> "extreferred", node |-> n, ref |-> extreferred(Now, n)]
  /\ UNCHANGED <<heap, fault, live, steps, lists, lop, taken>>

NextReferred == \E n \in Nodes : Referred(n)

SpecReferred == InitReferred /\ [][NextReferred]_vars

\* the field of the parent that the claim names for n
HoldingField(h, n) ==
  LET parentNode == h[n].p[fParent]
  IN IF TypeOf(h[parentNode].fl) = rbfMulext
       THEN (IF h[h[parentNode].p[fFront]].p[fPrevious] = n
               THEN <<h[parentNode].p[fFront], fPrevious>>
               ELSE <<h[parentNode].p[fBack], fNext>>)
     ELSE IF TypeOf(h[parentNode].fl) = rbfSingle
       THEN (IF h[parentNode].p[fLeft] = n THEN <<parentNode, fLeft>>
             ELSE <<parentNode, fRight>>)
     ELSE <<parentNode, fRoot>>

ExtSwap(a, b) ==
  /\ ~fault
  /\ a \in live /\ b \in live \ {a}
  /\ tagOf(heap, a) \in {rbfSingle, rbfMulext}
  /\ tagOf(heap, b) \in {rbfSingle, rbfMulext}
  /\ Commit(extswap(Now, a, b))
  /\ op' = [name |-> "extswap", node |-> a, peer |-> b, tag |-> tagOf(heap, a), dir |-> 0,
            rt |-> FALSE, rbPre |-> RBValid(heap), keysPre |-> TreeKeys(heap)]
  /\ live' = live

NextExt ==
  \/ \E n \in CoreNodes : op.name # "extswap" /\ Tick(MaxMoveOps) /\ UNCHANGED taken /\ Insert(n)
  \/ \E n \in CoreNodes : op.name # "extswap" /\ Tick(MaxMoveOps) /\ UNCHANGED taken /\ Erase(n)
  \/ \E a, b \in CoreNodes : op.name # "extswap" /\ Tick(MaxMoveOps) /\ UNCHANGED taken /\ ExtSwap(a, b)

SpecExt == Init /\ [][NextExt]_vars

\* parent, left child and right child of an external node
ExtLinks(h, n) == <<parentOf(h, n), leftOf(h, n), rightOf(h, n)>>

\* the links node x has once a and b have exchanged their positions
LinksExchanged(h, x, a, b) == [i \in 1 .. 3 |-> Exchange(ExtLinks(h, Exchange(x, a, b))[i], a, b)]

\* the fields of a queue that are no links of the position: back and front
\* of the head, mulext of every member, previous of every member but the
\* front, next of every member but the back
QueueFields(h, c) ==
  IF TypeOf(h[c].fl) = rbfMulext THEN <<h[c].p[fBack], h[c].p[fFront]>>
  ELSE IF TypeOf(h[c].fl) = rbfMulint
    THEN <<h[c].p[fMulext], IF HasBit4(h[c].fl) THEN NULL ELSE h[c].p[fPrevious], IF HasBit8(h[c].fl) THEN NULL ELSE h[c].p[fNext]>>
  ELSE <<>>

ExtSwapPost(a, b) ==
  /\ ~fault'
  /\ \A c \in Cells : heap'[c].fl = heap[c].fl /\ QueueFields(heap', c) = QueueFields(heap, c)
  /\ \A x \in Positions(heap) : ExtLinks(heap', x) = LinksExchanged(heap, x, a, b)
  /\ rootOf(heap') = Exchange(rootOf(heap), a, b)
  /\ \A c \in Cells \ (live \cup {SENT}) : heap'[c] = heap[c]

\* C33: extswap on two positions exchanges exactly their positions: each has
\* the other's former parent and children, the neighbours refer to the node
\* that took the place, and no tag, colour or queue changes; also when the
\* two are parent and child, in either argument order and on either side.
C33_Step ==
  (/\ op'.name = "extswap" /\ CrossReferenced(heap)
   /\ {op'.node, op'.peer} \subseteq Positions(heap)) => ExtSwapPost(op'.node, op'.peer)

C33_ExtSwapExchanges == [][C33_Step]_vars

\* a tree without positions: the sentinel is as constructed
EmptyTree(h) == h[SENT] = EmptyCell

\* C34: insert(sentinel, relation < 0) into an empty tree makes the node the
\* root: a black Single with the sentinel as parent and without children,
\* named by the sentinel's root field; the sentinel stays an Orphan and no
\* other node is touched.
C34_Step ==
  (/\ op'.name = "insert" /\ op'.peer = SENT /\ op'.dir < 0
   /\ EmptyTree(heap) /\ heap[op'.node] = EmptyCell) =>
     /\ ~fault'
     /\ heap'[op'.node] = [fl |-> rbfSingle + rbfColorBlack, p |-> <<SENT, NULL, NULL>>]
     /\ heap'[SENT] = [fl |-> rbfOrphan, p |-> <<NULL, op'.node, NULL>>]
     /\ \A c \in Cells \ {op'.node, SENT} : heap'[c] = heap[c]
     /\ isRoot(Mem(heap'), op'.node)

C34_InsertIntoEmpty == [][C34_Step]_vars

\* a node has been inserted into the empty tree and is its root
C34_Witness ==
  /\ op.name = "insert" /\ op.peer = SENT /\ op.dir < 0 /\ op.keysPre = {}
  /\ ~fault
  /\ rootOf(heap) = op.node
  /\ Positions(heap) = {op.node}

\* ------------------------------------------- erase and nullswap of orphans
\* the nodes tagged rbfOrphan: nodes that are in no tree, and the sentinel
Orphans(h) == {n \in CoreNodes \cup {SENT} : tagOf(h, n) = rbfOrphan}

\* n.erase() for a node tagged rbfOrphan
EraseOrphan(n) ==
  /\ ~fault
  /\ n \in Orphans(heap)
  /\ Commit(erase(Now, n))
  /\ op' = [name |-> "erase", node |-> n, peer |-> NULL, tag |-> rbfOrphan, dir |-> 0,
            rt |-> FALSE, rbPre |-> RBValid(heap), keysPre |-> TreeKeys(heap)]
  /\ live' = live

\* n.nullswap(m) for a node tagged rbfOrphan and an orphan placeholder
RelocateOrphan(n, m) ==
  /\ ~fault
  /\ n \in Orphans(heap)
  /\ m \in Orphans(heap) \ {n, SENT}
  /\ Commit(nullswap(Now, n, m))
  /\ op' = [name |-> "relocate", node |-> n, peer |-> m, tag |-> rbfOrphan, dir |-> 0,
            rt |-> FALSE, rbPre |-> RBValid(heap), keysPre |-> TreeKeys(heap)]
  /\ live' = live

NextOrphan ==
  \/ \E n \in CoreNodes : Tick(MaxMoveOps) /\ UNCHANGED taken /\ Insert(n)
  \/ \E n \in CoreNodes : Tick(MaxMoveOps) /\ UNCHANGED taken /\ Erase(n)
  \/ \E n \in CoreNodes \cup {SENT} : Tick(MaxMoveOps) /\ UNCHANGED taken /\ EraseOrphan(n)
  \/ \E n \in CoreNodes \cup {SENT}, m \in CoreNodes : Tick(MaxMoveOps) /\ UNCHANGED taken /\ RelocateOrphan(n, m)

SpecOrphan == Init /\ [][NextOrphan]_vars

\* C35: erase and nullswap called on a node tagged Orphan change nothing:
\* the node, the placeholder, the sentinel and every node of the tree keep
\* their flags and links, and the call returns.
C35_Step ==
  (op'.name \in {"erase", "relocate"} /\ tagOf(heap, op'.node) = rbfOrphan) =>
     /\ ~fault'
     /\ heap' = heap
     /\ live' = live

C35_OrphanNoOp == [][C35_Step]_vars

\* erase or nullswap has been called on an orphan while the tree holds nodes
C35_Witness ==
  /\ op.name \in {"erase", "relocate"} /\ op.tag = rbfOrphan /\ op.node # SENT
  /\ ~fault
  /\ Cardinality(Positions(heap)) >= 2

\* a position as its key sees it: colour, and the keys of parent, left
\* child and right child (0 for none and for the sentinel)
KeyOrNone(n) == IF n = NULL \/ n = SENT THEN 0 ELSE KeyOf(n)
PositionView(h, p) == [key |-> KeyOf(p), red |-> isRed(h, p), parent |-> KeyOrNone(parentOf(h, p)), left |-> KeyOrNone(leftOf(h, p)), right |-> KeyOrNone(rightOf(h, p))]
ShapeView(h) == {PositionView(h, p) : p \in Positions(h)}

\* the calls that change the multiplicity of a key only
MultiplicityOnly ==
  \/ op'.name = "insert" /\ op'.dir = 0
  \/ op'.name = "erase" /\ op'.tag \in {rbfMulint, rbfMulext}

\* C36: insert with direction 0, erase of a GroupMember and erase of a
\* GroupHead leave every position with the colour, the parent and the
\* children it had, whichever node represents the position afterwards.
C36_Step ==
  (MultiplicityOnly /\ CrossReferenced(heap)) => ShapeView(heap') = ShapeView(heap)

C36_MultiplicityKeepsShape == [][C36_Step]_vars

\* ------------------------------------------------ lifetime of a list
destroyContainer == TRUE

\* the loop of ~list(): node -> previous = node -> next = nullptr for every
\* node from sentinel.next up to the sentinel
RECURSIVE listDestroyLoop(_, _, _, _)
listDestroyLoop(s, sentinel, node, fuel) ==
  IF s.fault \/ node = sentinel \/ fuel = 0 THEN s
  ELSE IF node = NULL THEN [s EXCEPT !.fault = TRUE]
  ELSE listDestroyLoop(setNext(setPrevious(s, node, NULL), node, NULL), sentinel, s.lk[node].next, fuel - 1)

\* a destructor that clears the sentinel and leaves the nodes linked
listDestroySentinelOnly(s, sentinel) == setPrevious(setNext(s, sentinel, NULL), sentinel, NULL)

\* ~list(), followed by the destructor of the member sentinel
listDestroy(s, sentinel) ==
  IF ~destroyContainer THEN listNodeDestroy(s, sentinel)
  ELSE LET s1 == listDestroyLoop(s, sentinel, s.lk[sentinel].next, MaxListNodes + 1)
           s2 == setPrevious(setNext(s1, sentinel, NULL), sentinel, NULL)
       IN listNodeDestroy(s2, sentinel)

\* list(): sentinel(), then sentinel.previous = sentinel.next = &sentinel
listConstruct(s, sentinel) == setNext(setPrevious(s, sentinel, sentinel), sentinel, sentinel)

\* a list object exists at l: its sentinel is linked (to itself when empty)
Alive(l) == ~isOrphanNode(lists, l)

\* the list l goes out of scope
DestroyList(l) ==
  /\ ~lists.fault
  /\ Alive(l)
  /\ lists' = listDestroy(lists, l)
  /\ lop' = [name |-> "destroyList", list |-> l, node |-> lists.lk[l].next, ok |-> TRUE,
             at |-> lists.lk[l].previous, ret |-> NULL,
             content |-> [lop.content EXCEPT ![l] = <<>>]]
  /\ TreeIdle

\* a new list is constructed where a destroyed one was
ConstructList(l) ==
  /\ ~lists.fault
  /\ ~Alive(l)
  /\ lists' = listConstruct(lists, l)
  /\ lop' = [name |-> "constructList", list |-> l, node |-> NULL, ok |-> TRUE,
             at |-> NULL, ret |-> NULL, content |-> lop.content]
  /\ TreeIdle

NextScope ==
  \/ \E l \in Sentinels, n \in ListNodes : Alive(l) /\ PushFront(l, n)
  \/ \E l \in Sentinels, n \in ListNodes : Alive(l) /\ PushBack(l, n)
  \/ \E l \in Sentinels : Alive(l) /\ PopFront(l)
  \/ \E l \in Sentinels : Alive(l) /\ PopBack(l)
  \/ \E n \in ListNodes : Destroy(n)
  \/ \E l \in Sentinels : DestroyList(l)
  \/ \E l \in Sentinels : ConstructList(l)

SpecScope == Init /\ [][NextScope]_vars

\* the elements of the list that is destroyed, and the lists that stay
Elements(l) == SeqSet(ListSeq(lists, l))
Others(l) == {o \in Sentinels \ {l} : Alive(o)}

\* C37: the destructor of a list (scope decoupled) leaves every node that
\* was linked in it and the list's sentinel with previous and next empty and
\* touches nothing else, so each former element can then be pushed into
\* another list: the push returns true and links the node.
C37_Step ==
  lop'.name = "destroyList" =>
     /\ ~lists'.fault
     /\ \A n \in Elements(lop'.list) \cup {lop'.list} : isOrphanNode(lists', n)
     /\ \A c \in ListCells \ (Elements(lop'.list) \cup {lop'.list}) : lists'.lk[c] = lists.lk[c]
     /\ \A n \in Elements(lop'.list), o \in Others(lop'.list) :
          /\ pushFront(lists', o, n).ok
          /\ ListSeq(pushFront(lists', o, n).st, o) = <<n>> \o ListSeq(lists, o)
          /\ pushBack(lists', o, n).ok
          /\ ListSeq(pushBack(lists', o, n).st, o) = ListSeq(lists, o) \o <<n>>

C37_DestroyListOrphans == [][C37_Step]_vars

\* a list of at least two elements has been destroyed while the other list
\* holds elements
C37_Witness ==
  /\ lop.name = "destroyList" /\ ~lists.fault
  /\ lop.node \in ListNodes /\ lop.at \in ListNodes \ {lop.node}
  /\ isOrphanNode(lists, lop.node) /\ isOrphanNode(lists, lop.at)
  /\ isOrphanNode(lists, lop.list)
  /\ \E o \in Sentinels \ {lop.list} : ~isOrphanNode(lists, o) /\ ~empty(lists, o)
====
